---- MODULE Spec2Model ----
(***************************************************************************)
(* iqserver-report-fetch-go: the concurrent aggregation pipeline of        *)
(* IQReportService.GenerateLatestPolicyReport (internal/services), the     *)
(* four client calls it consumes (internal/client) and the durable CSV     *)
(* writer report.WriteCSV (internal/report).                               *)
(*                                                                         *)
(* Text.  A Go string is a sequence of tokens, each token a TLA+ string;   *)
(* "" is <<>> and concatenation is \o.  Detail locators are spelled one    *)
(* character per token, so that strings.TrimSpace and strings.Cut work on  *)
(* characters.  An error is its message text; the nil error is <<>> (no    *)
(* error the program builds has an empty message).                         *)
(***************************************************************************)
EXTENDS Integers, Sequences, FiniteSets, Bags, TLC

(***************************************************************************)
(* Bounds of the model.                                                    *)
(***************************************************************************)
\* longest application list the remote source returns in Spec
MaxApps == 2
\* length of the application list of the load specification SpecLoad
LoadApps == 11
\* most rows WriteCSV is handed in SpecWrite
MaxRows == 3
\* components of a report and violations of a component the flattening is
\* checked on
MaxComps == 2
MaxViols == 2

(***************************************************************************)
(* Program constant: capacity of the semaphore channel.                    *)
(***************************************************************************)
SemCap == 10

Nil == <<>>

(***************************************************************************)
(* Library functions of the Go runtime, as far as the program uses them.   *)
(***************************************************************************)
Space == {" ", "\t", "\n", "\r"}

RECURSIVE TrimLeft(_)
TrimLeft(s) ==
  IF s # <<>> /\ Head(s) \in Space THEN TrimLeft(Tail(s)) ELSE s

RECURSIVE TrimRight(_)
TrimRight(s) ==
  IF s # <<>> /\ s[Len(s)] \in Space
    THEN TrimRight(SubSeq(s, 1, Len(s) - 1))
    ELSE s

\* strings.TrimSpace
TrimSpace(s) == TrimRight(TrimLeft(s))

\* strings.Index: the first position at which sep occurs in s, 0 when none
Index(s, sep) ==
  LET at == {i \in 1..(Len(s) - Len(sep) + 1) :
               SubSeq(s, i, i + Len(sep) - 1) = sep}
  IN  IF at = {} THEN 0 ELSE CHOOSE i \in at : \A j \in at : i <= j

\* strings.Cut: s around the first occurrence of sep
Cut(s, sep) ==
  LET i == Index(s, sep)
  IN  IF i = 0
        THEN [before |-> s, after |-> <<>>, found |-> FALSE]
        ELSE [before |-> SubSeq(s, 1, i - 1),
              after  |-> SubSeq(s, i + Len(sep), Len(s)),
              found  |-> TRUE]

\* strings.Contains
Contains(s, sub) == Index(s, sub) # 0

Digit(d) == CASE d = 0 -> "0" [] d = 1 -> "1" [] d = 2 -> "2" [] d = 3 -> "3"
              [] d = 4 -> "4" [] d = 5 -> "5" [] d = 6 -> "6" [] d = 7 -> "7"
              [] d = 8 -> "8" [] d = 9 -> "9"

RECURSIVE ItoaNat(_)
ItoaNat(n) ==
  IF n < 10 THEN <<Digit(n)>> ELSE ItoaNat(n \div 10) \o <<Digit(n % 10)>>

\* strconv.Itoa, and fmt's %d
Itoa(n) == IF n < 0 THEN <<"-">> \o ItoaNat(-n) ELSE ItoaNat(n)

\* strings.Join
RECURSIVE Join(_, _)
Join(elems, sep) ==
  IF elems = <<>> THEN <<>>
  ELSE IF Len(elems) = 1 THEN elems[1]
  ELSE elems[1] \o sep \o Join(Tail(elems), sep)

\* fmt's %q: the string in double quotes
Quote(s) == <<"\"">> \o s \o <<"\"">>

\* filepath.Join of a directory and a file name
PathJoin(dir, name) == dir \o <<"/">> \o name

(***************************************************************************)
(* internal/client: the flattening of a policy violation report.  A        *)
(* PolicyThreatLevel is a float64: it is kept here in tenths, so 75 is     *)
(* 7.5, and int() truncates it towards zero.                               *)
(***************************************************************************)
TruncToInt(tenths) ==
  IF tenths >= 0 THEN tenths \div 10 ELSE -((-tenths) \div 10)

RECURSIVE condSummaries(_)
condSummaries(conds) ==
  IF conds = <<>> THEN <<>>
  ELSE <<conds[1].ConditionSummary>> \o condSummaries(Tail(conds))

ViolationRow(appPublicID, orgName, comp, v, constr) ==
  [Application    |-> appPublicID,
   Organization   |-> orgName,
   Policy         |-> v.PolicyName,
   Format         |-> comp.ComponentIdentifier.Format,
   Component      |-> comp.DisplayName,
   Threat         |-> TruncToInt(v.PolicyThreatLevel),
   PolicyAction   |-> <<"Security-">> \o Itoa(TruncToInt(v.PolicyThreatLevel)),
   ConstraintName |-> constr.ConstraintName,
   Condition      |-> Join(condSummaries(constr.Conditions), <<" | ">>),
   CVE            |-> <<>>]

\* mutant: one row for each condition of a constraint
RECURSIVE constraintRowsPerCondition(_, _, _, _, _)
constraintRowsPerCondition(constrs, appPublicID, orgName, comp, v) ==
  IF constrs = <<>> THEN <<>>
  ELSE [i \in 1..Len(constrs[1].Conditions) |->
          ViolationRow(appPublicID, orgName, comp, v,
                       [constrs[1] EXCEPT !.Conditions = <<@[i]>>])]
       \o constraintRowsPerCondition(Tail(constrs), appPublicID, orgName,
                                     comp, v)

RECURSIVE constraintRows(_, _, _, _, _)
constraintRows(constrs, appPublicID, orgName, comp, v) ==
  IF constrs = <<>> THEN <<>>
  ELSE <<ViolationRow(appPublicID, orgName, comp, v, constrs[1])>>
       \o constraintRows(Tail(constrs), appPublicID, orgName, comp, v)

\* mutant: the rows of a later violation come first
RECURSIVE violationRowsLastFirst(_, _, _, _)
violationRowsLastFirst(vs, appPublicID, orgName, comp) ==
  IF vs = <<>> THEN <<>>
  ELSE violationRowsLastFirst(Tail(vs), appPublicID, orgName, comp)
       \o constraintRows(vs[1].Constraints, appPublicID, orgName, comp, vs[1])

RECURSIVE violationRows(_, _, _, _)
violationRows(vs, appPublicID, orgName, comp) ==
  IF vs = <<>> THEN <<>>
  ELSE constraintRows(vs[1].Constraints, appPublicID, orgName, comp, vs[1])
       \o violationRows(Tail(vs), appPublicID, orgName, comp)

RECURSIVE componentRows(_, _, _)
componentRows(comps, appPublicID, orgName) ==
  IF comps = <<>> THEN <<>>
  ELSE violationRows(comps[1].Violations, appPublicID, orgName, comps[1])
       \o componentRows(Tail(comps), appPublicID, orgName)

parseToViolationRows(rawReport, appPublicID, orgName) ==
  componentRows(rawReport.Components, appPublicID, orgName)

(***************************************************************************)
(* internal/client: the four calls.  raw is what the transport hands back: *)
(* err is the transport error (Nil when the round trip completed), status  *)
(* and text the response status and its text, result the decoded payload.  *)
(* Each call runs under the caller's context (SetContext(ctx)), so the     *)
(* transport error of a call may be the context's error once the deadline  *)
(* has fired.                                                              *)
(***************************************************************************)
\* resty's Response.IsError
IsError(raw) == raw.status > 399

requestFailed(raw) == <<"request failed: ">> \o raw.err

httpError(raw) == <<"HTTP ">> \o Itoa(raw.status) \o <<": ">> \o raw.text

GetApplications(raw) ==
  IF raw.err # Nil THEN [apps |-> <<>>, err |-> requestFailed(raw)]
  ELSE IF IsError(raw) THEN [apps |-> <<>>, err |-> httpError(raw)]
  ELSE [apps |-> raw.result, err |-> Nil]

GetOrganizations(raw) ==
  IF raw.err # Nil THEN [orgs |-> <<>>, err |-> requestFailed(raw)]
  ELSE IF IsError(raw) THEN [orgs |-> <<>>, err |-> httpError(raw)]
  ELSE [orgs |-> raw.result, err |-> Nil]

\* mutant: the report listed last is taken for the latest
GetLatestReportInfoLast(raw) ==
  IF raw.err # Nil THEN [info |-> <<>>, err |-> requestFailed(raw)]
  ELSE IF IsError(raw) THEN [info |-> <<>>, err |-> httpError(raw)]
  ELSE IF Len(raw.result) > 0
    THEN [info |-> <<raw.result[Len(raw.result)]>>, err |-> Nil]
  ELSE [info |-> <<>>, err |-> Nil]

\* The *ReportInfo result is a sequence of length 0 (nil) or 1.
GetLatestReportInfo(raw) ==
  IF raw.err # Nil THEN [info |-> <<>>, err |-> requestFailed(raw)]
  ELSE IF IsError(raw) THEN [info |-> <<>>, err |-> httpError(raw)]
  ELSE IF Len(raw.result) > 0 THEN [info |-> <<raw.result[1]>>, err |-> Nil]
  ELSE [info |-> <<>>, err |-> Nil]

GetPolicyViolations(raw, publicID, reportID, orgName) ==
  IF raw.err # Nil THEN [rows |-> <<>>, err |-> requestFailed(raw)]
  ELSE IF IsError(raw) THEN [rows |-> <<>>, err |-> httpError(raw)]
  ELSE [rows |-> parseToViolationRows(raw.result, publicID, orgName),
        err  |-> Nil]

(***************************************************************************)
(* internal/report: the CSV records.                                       *)
(***************************************************************************)
csvHeaders ==
  << <<"No.">>, <<"Application">>, <<"Organization">>, <<"Policy">>,
     <<"Component">>, <<"Threat">>, <<"Policy/Action">>,
     <<"Constraint Name">>, <<"Condition">>, <<"CVE">> >>

\* the record WriteCSV builds for rows[i + 1], i counted from 0 as in the loop
record(i, r) ==
  << Itoa(i + 1), r.Application, r.Organization, r.Policy, r.Component,
     Itoa(r.Threat), r.PolicyAction, r.ConstraintName, r.Condition, r.CVE >>

(***************************************************************************)
(* internal/services: the conversion of client rows to report rows.        *)
(***************************************************************************)
reportRow(r) ==
  [Application    |-> r.Application,
   Organization   |-> r.Organization,
   Policy         |-> r.Policy,
   Component      |-> r.Component,
   Threat         |-> r.Threat,
   PolicyAction   |-> r.PolicyAction,
   ConstraintName |-> r.ConstraintName,
   Condition      |-> r.Condition,
   CVE            |-> r.CVE]

reportRows(clientRows) ==
  [i \in 1..Len(clientRows) |-> reportRow(clientRows[i])]

\* orgIDToName after the loop over orgs: a later entry replaces an earlier one
RECURSIVE buildOrgIDToName(_, _)
buildOrgIDToName(orgs, m) ==
  IF orgs = <<>> THEN m
  ELSE buildOrgIDToName(Tail(orgs),
         [k \in (DOMAIN m) \cup {orgs[1].ID} |->
            IF k = orgs[1].ID THEN orgs[1].Name ELSE m[k]])

\* mutant: no fallback to the identifier, the zero value of the map stays
lookupOrgNameBlank(m, id) == IF id \in DOMAIN m THEN m[id] ELSE <<>>

\* orgName, ok := orgIDToName[id]; if !ok { orgName = id }
lookupOrgName(m, id) == IF id \in DOMAIN m THEN m[id] ELSE id

(***************************************************************************)
(* The remote source and the file system the runs are checked against.     *)
(***************************************************************************)
Marker == <<"/", "r", "e", "p", "o", "r", "t", "/">>

App1 == [ID |-> <<"aid-1">>, PublicID |-> <<"apid-1">>,
         OrganizationID |-> <<"org-1">>]
\* an application whose organization the organization list does not hold
App2 == [ID |-> <<"aid-2">>, PublicID |-> <<"apid-2">>,
         OrganizationID |-> <<"org-9">>]
Applications == {App1, App2}

RECURSIVE SeqsUpTo(_, _)
SeqsUpTo(S, n) ==
  IF n = 0 THEN {<<>>}
  ELSE LET shorter == SeqsUpTo(S, n - 1)
       IN  shorter \cup {Append(q, x) : q \in shorter, x \in S}

Org1 == [ID |-> <<"org-1">>, Name |-> <<"personal">>]
\* no organization; org-1 listed twice, the later entry named "personal"
OrgLists == {<<>>, <<[ID |-> <<"org-1">>, Name |-> <<"old">>], Org1>>}

GoodLocator == <<"h", ":">> \o Marker \o <<"7">>
Locators ==
  { <<" ", "\t">>,                          \* blank
    <<"h", ":", "/", "7">>,                 \* no marker
    <<"h", ":">> \o Marker,                 \* nothing after the marker
    GoodLocator }

ReportInfo(url) == [Stage |-> <<"build">>, ReportHTMLURL |-> url]

Cond(s) == [ConditionSummary |-> <<s>>]
Constr1 == [ConstraintName |-> <<"Medium risk CVSS score">>,
            Conditions |-> <<Cond("a"), Cond("b")>>]
Constr0 == [ConstraintName |-> <<"Empty">>, Conditions |-> <<>>]
Viol1 == [PolicyName |-> <<"Security-Medium">>, PolicyThreatLevel |-> 70,
          Constraints |-> <<Constr1>>]
Viol2 == [PolicyName |-> <<"Security-High">>, PolicyThreatLevel |-> 95,
          Constraints |-> <<Constr0, Constr1>>]
ViolNone == [PolicyName |-> <<"License-None">>, PolicyThreatLevel |-> 10,
             Constraints |-> <<>>]
\* the package format the remote reports for a component
FormatOf(name) == IF name = "libX" THEN <<"pypi">> ELSE <<"maven">>

Comp(name, vs) ==
  [DisplayName |-> <<name>>, Violations |-> vs,
   ComponentIdentifier |-> [Format |-> FormatOf(name)]]
\* no components: no rows
Report0 == [Components |-> <<>>]
\* one (component, violation, constraint) triple: one row
Report1 == [Components |-> <<Comp("libX", <<Viol1>>)>>]
\* three triples, next to a component with no violation and a violation with
\* no constraint: three rows
Report3 == [Components |-> <<Comp("libY", <<ViolNone, Viol2>>),
                             Comp("libZ", <<>>),
                             Comp("libX", <<Viol1>>)>>]
Reports == {Report0, Report1, Report3}

\* the reports the flattening is checked on
FlatViolations == {ViolNone, Viol1, Viol2}
FlatComponents ==
  {Comp("libX", vs) : vs \in SeqsUpTo(FlatViolations, MaxViols)}
    \cup {Comp("libY", <<Viol1>>)}
FlatPayloads ==
  {[Components |-> cs] : cs \in SeqsUpTo(FlatComponents, MaxComps)}

TransportErr == [err |-> <<"connection refused">>, status |-> 0,
                 text |-> <<>>, result |-> <<>>]
HTTPErr == [err |-> Nil, status |-> 500,
            text |-> <<"500 Internal Server Error">>, result |-> <<>>]
\* the call aborted by its context
CtxErr == <<"context deadline exceeded">>
CtxAbort == [err |-> CtxErr, status |-> 0, text |-> <<>>, result |-> <<>>]
OK(result) == [err |-> Nil, status |-> 200, text |-> <<"200 OK">>,
               result |-> result]

\* what a call can come back with, given the payloads the remote can serve
Outcomes(payloads, done) ==
  {TransportErr, HTTPErr} \cup {OK(p) : p \in payloads}
    \cup (IF done THEN {CtxAbort} ELSE {})

AppsPayloads == SeqsUpTo(Applications, MaxApps)
\* no report; one report; two reports, the first with an empty locator
LatestPayloads ==
  {<<>>} \cup {<<ReportInfo(l)>> : l \in Locators}
         \cup {<<ReportInfo(<<>>), ReportInfo(GoodLocator)>>}
ViolPayloads == Reports

\* the load run: LoadApps applications, each with a report of one row
LoadAppsPayloads == {[i \in 1..LoadApps |-> App1]}
LoadLatestPayloads == {<<ReportInfo(GoodLocator)>>}
LoadViolPayloads == {Report1}
LoadOrgLists == {<<Org1>>}

OutputDir == <<"reports_output">>
filename == <<"report.csv">>

(***************************************************************************)
(* internal/config: Load.  A variable of the environment, or of the file   *)
(* config/.env, is a sequence of length 0 (not set) or 1 (its value, which *)
(* may be the empty text).                                                 *)
(***************************************************************************)
EnvKeys == {"IQ_SERVER_URL", "IQ_USERNAME", "IQ_PASSWORD", "ORGANIZATION_ID"}
RequiredKeys == {"IQ_SERVER_URL", "IQ_USERNAME", "IQ_PASSWORD"}

\* godotenv.Load("config/.env"): a variable of the file is put into the
\* environment unless the environment has it already; no file, no change
dotenvLoad(env, file) ==
  [k \in EnvKeys |-> IF env[k] # <<>> \/ file = <<>> THEN env[k]
                     ELSE file[1][k]]

\* the validator's url rule: a scheme, "://" and something after it
IsURL(s) ==
  LET c == Cut(s, <<"://">>) IN c.found /\ c.before # <<>> /\ c.after # <<>>

\* the value a string field gets from a variable: "" when it is not set
Getenv(env, k) == IF env[k] = <<>> THEN <<>> ELSE env[k][1]

\* env.Parse(cfg): the fields tagged required must be set
envParse(env) ==
  IF \E k \in RequiredKeys : env[k] = <<>>
    THEN [val |-> <<>>,
          err |-> <<"env: required environment variable is not set">>]
    ELSE [val |-> <<[IQServerURL    |-> Getenv(env, "IQ_SERVER_URL"),
                     IQUsername     |-> Getenv(env, "IQ_USERNAME"),
                     IQPassword     |-> Getenv(env, "IQ_PASSWORD"),
                     OrganizationID |-> Getenv(env, "ORGANIZATION_ID"),
                     OutputDir      |-> <<>>]>>,
          err |-> Nil]

\* validate.Struct(cfg): required fields are not empty, the server is a URL
validateStruct(c) ==
  IF \/ c.IQServerURL = <<>> \/ ~IsURL(c.IQServerURL)
     \/ c.IQUsername = <<>> \/ c.IQPassword = <<>> \/ c.OutputDir = <<>>
    THEN <<"Field validation failed">>
    ELSE Nil

\* mutant: the parsed configuration is returned without validation
LoadUnvalidated(env, file) ==
  LET parsed == envParse(dotenvLoad(env, file))
  IN  IF parsed.err # Nil THEN parsed
      ELSE [val |-> <<[parsed.val[1] EXCEPT !.OutputDir = OutputDir]>>,
            err |-> Nil]

Load(env, file) ==
  LET parsed == envParse(dotenvLoad(env, file))
      c      == [parsed.val[1] EXCEPT !.OutputDir = OutputDir]
  IN  IF parsed.err # Nil THEN parsed
      ELSE IF validateStruct(c) # Nil
        THEN [val |-> <<>>, err |-> validateStruct(c)]
      ELSE [val |-> <<c>>, err |-> Nil]

\* the environments Load is called in
ServerURL == <<"http", "://", "example.com/api/v2">>
Unset == <<>>
EnvValues ==
  [IQ_SERVER_URL   |-> {Unset, << <<>> >>, << <<"example">> >>, <<ServerURL>>},
   IQ_USERNAME     |-> {Unset, << <<>> >>, << <<"user">> >>},
   IQ_PASSWORD     |-> {Unset, << <<>> >>, << <<"pass">> >>},
   ORGANIZATION_ID |-> {Unset, << <<>> >>, << <<"org-1">> >>}]
Envs == {e \in [EnvKeys -> UNION {EnvValues[k] : k \in EnvKeys}] :
           \A k \in EnvKeys : e[k] \in EnvValues[k]}
\* the environment of TestLoad_WithEnvVars_Succeeds
TestEnv ==
  [k \in EnvKeys |->
     CASE k = "IQ_SERVER_URL"   -> <<ServerURL>>
       [] k = "IQ_USERNAME"     -> << <<"user">> >>
       [] k = "IQ_PASSWORD"     -> << <<"pass">> >>
       [] k = "ORGANIZATION_ID" -> << <<>> >>]
\* no file config/.env; one that sets the server only; one that sets all
DotEnvFiles ==
  { <<>>,
    <<[k \in EnvKeys |-> IF k = "IQ_SERVER_URL" THEN <<ServerURL>>
                         ELSE Unset]>>,
    <<[k \in EnvKeys |-> IF k = "ORGANIZATION_ID" THEN Unset
                         ELSE TestEnv[k]]>> }
NotLoaded == [val |-> <<>>, err |-> <<"not loaded">>]

\* a file (or none) is a sequence of length 1 (or 0); data are its records,
\* of which the first durable ones are on stable storage
NoFile == <<>>
OldFile == <<[data |-> << <<"old">> >>, durable |-> 1, mode |-> "0644"]>>
FileSystems ==
  { [dir |-> FALSE, dest |-> NoFile,  tmp |-> NoFile],
    [dir |-> TRUE,  dest |-> NoFile,  tmp |-> NoFile],
    [dir |-> TRUE,  dest |-> OldFile, tmp |-> NoFile] }

(***************************************************************************)
(* State.                                                                  *)
(***************************************************************************)
VARIABLES
  ctxDone,           \* ctx.Err() # nil: the deadline of the operation has fired
  gpc,               \* where GenerateLatestPolicyReport stands
  apps,              \* apps, once fetched
  orgIDToName,       \* the organization lookup, once built
  launched,          \* applications the launch loop has passed
  units,             \* the per-application goroutines: a bag of their frames
  sem,               \* len(sem): occupied slots of the semaphore channel
  wg,                \* counter of the WaitGroup
  resultsChan,       \* buffered outcomes, oldest first; its capacity is len(apps)
  chanClosed,        \* close(resultsChan) has happened
  closer,            \* the goroutine that waits for wg and closes resultsChan
  allViolationRows,  \* rows merged so far
  fetched,           \* history: the setup calls dispatched, in order
  received,          \* history: the outcomes the merge loop has taken, in order
  ret,               \* what GenerateLatestPolicyReport returned
  wr,                \* the frame of WriteCSV
  fs,                \* output directory, destination path, temporary file
  fs0,               \* the file system before the call
  crashed,           \* the process has died
  environ,           \* the environment and config/.env when Load is called
  cfg                \* what config.Load returned

vars == <<ctxDone, gpc, apps, orgIDToName, launched, units, sem, wg,
          resultsChan, chanClosed, closer, allViolationRows, fetched,
          received, ret, wr, fs, fs0, crashed, environ, cfg>>

genVars == <<gpc, apps, orgIDToName, launched, allViolationRows, fetched,
             received, ret>>
gateVars == <<sem, wg, resultsChan, chanClosed, closer>>
fileVars == <<wr, fs, fs0, crashed>>
cfgVars == <<environ, cfg>>

\* AppReportResult
AppReportResult(rows, err) == [Rows |-> rows, Err |-> err]

\* the frame of a goroutine at its launch; calls lists the client calls it
\* has dispatched, report is the PolicyViolationReport GetPolicyViolations
\* decoded (a sequence of length 0 or 1), lookup is what the remote source
\* answered to GetLatestReportInfo (a sequence of length 0 or 1)
NewUnit(app) ==
  [app |-> app, pc |-> "acquire", calls |-> <<>>, lookup |-> <<>>,
   latest |-> [info |-> <<>>, err |-> Nil],
   reportID |-> <<>>, orgName |-> <<>>, report |-> <<>>,
   res |-> AppReportResult(<<>>, Nil)]

Running == BagToSet(units)

Move(u, v) == (units (-) SetToBag({u})) (+) SetToBag({v})

target == PathJoin(OutputDir, filename)

WriteIdle == [pc |-> "idle", i |-> 0, w |-> <<>>, open |-> FALSE, err |-> Nil]

Returned(path, err) == [path |-> path, err |-> err]

\* the state at the call of GenerateLatestPolicyReport; main has created the
\* output directory
Init ==
  /\ ctxDone = FALSE
  /\ gpc = "getapps"
  /\ apps = <<>>
  /\ orgIDToName = <<>>
  /\ launched = 0
  /\ units = EmptyBag
  /\ sem = 0
  /\ wg = 0
  /\ resultsChan = <<>>
  /\ chanClosed = FALSE
  /\ closer = "none"
  /\ allViolationRows = <<>>
  /\ fetched = <<>>
  /\ received = <<>>
  /\ ret = Returned(<<>>, Nil)
  /\ wr = WriteIdle
  /\ fs \in {f \in FileSystems : f.dir}
  /\ fs0 = fs
  /\ crashed = FALSE
  /\ environ = [env |-> TestEnv, file |-> <<>>]
  /\ cfg = Load(environ.env, environ.file)

(***************************************************************************)
(* The deadline of the context fires.  It is followed only as long as the  *)
(* program can still look at the context: no statement reads ctx once the  *)
(* setup is over and every goroutine is past its client calls.             *)
(***************************************************************************)
ReadsContext ==
  \/ gpc \in {"getapps", "getorgs", "launch"}
  \/ \E u \in BagToSet(units) : u.pc \in {"acquire", "check", "latest", "policy"}

Deadline ==
  /\ ~ctxDone
  /\ ReadsContext
  /\ ctxDone' = TRUE
  /\ UNCHANGED cfgVars
  /\ UNCHANGED <<genVars, units, gateVars, fileVars>>

(***************************************************************************)
(* GenerateLatestPolicyReport: sequential setup.                           *)
(***************************************************************************)
\* mutant: no check of len(apps)
FetchApplicationsUnchecked(raw) ==
  /\ gpc = "getapps"
  /\ LET r == GetApplications(raw)
     IN  IF r.err # Nil
           THEN /\ ret' = Returned(<<>>, <<"get applications: ">> \o r.err)
                /\ gpc' = "returned"
                /\ apps' = apps
           ELSE /\ apps' = r.apps
                /\ gpc' = "getorgs"
                /\ ret' = ret
  /\ fetched' = Append(fetched, "applications")
  /\ UNCHANGED cfgVars
  /\ UNCHANGED <<ctxDone, orgIDToName, launched, allViolationRows, received,
                 units, gateVars, fileVars>>

\* mutant: the launch loop follows at once, GetOrganizations is left out
FetchApplicationsOnly(raw) ==
  /\ gpc = "getapps"
  /\ LET r == GetApplications(raw)
     IN  IF r.err # Nil
           THEN /\ ret' = Returned(<<>>, <<"get applications: ">> \o r.err)
                /\ gpc' = "returned"
                /\ apps' = apps
         ELSE IF Len(r.apps) = 0
           THEN /\ ret' = Returned(<<>>, <<"no applications found">>)
                /\ gpc' = "returned"
                /\ apps' = apps
         ELSE /\ apps' = r.apps
              /\ gpc' = "launch"
              /\ ret' = ret
  /\ fetched' = Append(fetched, "applications")
  /\ UNCHANGED cfgVars
  /\ UNCHANGED <<ctxDone, orgIDToName, launched, allViolationRows, received,
                 units, gateVars, fileVars>>

FetchApplications(raw) ==
  /\ gpc = "getapps"
  /\ LET r == GetApplications(raw)
     IN  IF r.err # Nil
           THEN /\ ret' = Returned(<<>>, <<"get applications: ">> \o r.err)
                /\ gpc' = "returned"
                /\ apps' = apps
         ELSE IF Len(r.apps) = 0
           THEN /\ ret' = Returned(<<>>, <<"no applications found">>)
                /\ gpc' = "returned"
                /\ apps' = apps
         ELSE /\ apps' = r.apps
              /\ gpc' = "getorgs"
              /\ ret' = ret
  /\ fetched' = Append(fetched, "applications")
  /\ UNCHANGED cfgVars
  /\ UNCHANGED <<ctxDone, orgIDToName, launched, allViolationRows, received,
                 units, gateVars, fileVars>>

\* mutant: a failed organization listing is passed over, the lookup left
\* empty
FetchOrganizationsLenient(raw) ==
  /\ gpc = "getorgs"
  /\ orgIDToName' = buildOrgIDToName(GetOrganizations(raw).orgs, <<>>)
  /\ gpc' = "launch"
  /\ ret' = ret
  /\ fetched' = Append(fetched, "organizations")
  /\ UNCHANGED cfgVars
  /\ UNCHANGED <<ctxDone, apps, launched, allViolationRows, received, units,
                 gateVars, fileVars>>

FetchOrganizations(raw) ==
  /\ gpc = "getorgs"
  /\ LET r == GetOrganizations(raw)
     IN  IF r.err # Nil
           THEN /\ ret' = Returned(<<>>, <<"get organizations: ">> \o r.err)
                /\ gpc' = "returned"
                /\ orgIDToName' = orgIDToName
           ELSE /\ orgIDToName' = buildOrgIDToName(r.orgs, <<>>)
                /\ gpc' = "launch"
                /\ ret' = ret
  /\ fetched' = Append(fetched, "organizations")
  /\ UNCHANGED cfgVars
  /\ UNCHANGED <<ctxDone, apps, launched, allViolationRows, received, units,
                 gateVars, fileVars>>

(***************************************************************************)
(* The launch loop: wg.Add(1) and a goroutine for the next application;    *)
(* after the last one, the goroutine that closes the channel.              *)
(***************************************************************************)
Launch ==
  /\ gpc = "launch"
  /\ launched < Len(apps)
  /\ wg' = wg + 1
  /\ units' = units (+) SetToBag({NewUnit(apps[launched + 1])})
  /\ launched' = launched + 1
  /\ UNCHANGED cfgVars
  /\ UNCHANGED <<ctxDone, gpc, apps, orgIDToName, allViolationRows, fetched,
                 received, ret, sem, resultsChan, chanClosed, closer,
                 fileVars>>

StartCloser ==
  /\ gpc = "launch"
  /\ launched = Len(apps)
  /\ closer' = "waiting"
  /\ gpc' = "merge"
  /\ UNCHANGED cfgVars
  /\ UNCHANGED <<ctxDone, apps, orgIDToName, launched, allViolationRows,
                 fetched, received, ret, units, sem, wg, resultsChan,
                 chanClosed, fileVars>>

\* mutant: the channel is closed without wg.Wait()
CloseResultsNoWait ==
  /\ closer = "waiting"
  /\ chanClosed' = TRUE
  /\ closer' = "done"
  /\ UNCHANGED cfgVars
  /\ UNCHANGED <<ctxDone, genVars, units, sem, wg, resultsChan, fileVars>>

\* wg.Wait() returns; close(resultsChan)
CloseResults ==
  /\ closer = "waiting"
  /\ wg = 0
  /\ chanClosed' = TRUE
  /\ closer' = "done"
  /\ UNCHANGED cfgVars
  /\ UNCHANGED <<ctxDone, genVars, units, sem, wg, resultsChan, fileVars>>

(***************************************************************************)
(* One goroutine.                                                          *)
(***************************************************************************)
\* mutant: the send on sem never blocks
AcquireUngated(u) ==
  /\ u.pc = "acquire"
  /\ sem' = sem + 1
  /\ units' = Move(u, [u EXCEPT !.pc = "check"])
  /\ UNCHANGED cfgVars
  /\ UNCHANGED <<ctxDone, genVars, wg, resultsChan, chanClosed, closer,
                 fileVars>>

\* sem <- struct{}{}
Acquire(u) ==
  /\ u.pc = "acquire"
  /\ sem < SemCap
  /\ sem' = sem + 1
  /\ units' = Move(u, [u EXCEPT !.pc = "check"])
  /\ UNCHANGED cfgVars
  /\ UNCHANGED <<ctxDone, genVars, wg, resultsChan, chanClosed, closer,
                 fileVars>>

\* mutant: ctx.Err() is not looked at
CheckContextIgnored(u) ==
  /\ u.pc = "check"
  /\ units' = Move(u, [u EXCEPT !.calls = Append(@, "latest"),
                                !.pc = "latest"])
  /\ UNCHANGED cfgVars
  /\ UNCHANGED <<ctxDone, genVars, gateVars, fileVars>>

\* if ctx.Err() != nil; otherwise GetLatestReportInfo is dispatched
CheckContext(u) ==
  /\ u.pc = "check"
  /\ units' = Move(u,
       IF ctxDone
         THEN [u EXCEPT !.res = AppReportResult(<<>>, CtxErr), !.pc = "send"]
         ELSE [u EXCEPT !.calls = Append(@, "latest"), !.pc = "latest"])
  /\ UNCHANGED cfgVars
  /\ UNCHANGED <<ctxDone, genVars, gateVars, fileVars>>

\* mutant: the locator is tested for "" without strings.TrimSpace
afterLatestUntrimmed(u, r, lookup) ==
  LET url == r.info[1].ReportHTMLURL
      c   == Cut(url, Marker)
  IN  IF r.err # Nil
        THEN [u EXCEPT !.latest = r, !.pc = "send",
                !.res = AppReportResult(<<>>,
                  <<"latest report for ">> \o u.app.PublicID \o <<": ">>
                    \o r.err)]
      ELSE IF r.info = <<>> \/ url = <<>>
        THEN [u EXCEPT !.latest = r, !.pc = "send",
                !.res = AppReportResult(<<>>, Nil)]
      ELSE IF ~c.found \/ c.after = <<>>
        THEN [u EXCEPT !.latest = r, !.pc = "send",
                !.res = AppReportResult(<<>>,
                  <<"cannot parse report id from ">> \o Quote(url))]
      ELSE [u EXCEPT !.latest = r, !.pc = "policy",
              !.reportID = c.after,
              !.orgName = lookupOrgName(lookup, u.app.OrganizationID),
              !.calls = Append(@, "policy")]

\* mutant: an empty report id is accepted
afterLatestEmptyID(u, r, lookup) ==
  LET url == r.info[1].ReportHTMLURL
      c   == Cut(url, Marker)
  IN  IF r.err # Nil
        THEN [u EXCEPT !.latest = r, !.pc = "send",
                !.res = AppReportResult(<<>>,
                  <<"latest report for ">> \o u.app.PublicID \o <<": ">>
                    \o r.err)]
      ELSE IF r.info = <<>> \/ TrimSpace(url) = <<>>
        THEN [u EXCEPT !.latest = r, !.pc = "send",
                !.res = AppReportResult(<<>>, Nil)]
      ELSE IF ~c.found
        THEN [u EXCEPT !.latest = r, !.pc = "send",
                !.res = AppReportResult(<<>>,
                  <<"cannot parse report id from ">> \o Quote(url))]
      ELSE [u EXCEPT !.latest = r, !.pc = "policy",
              !.reportID = c.after,
              !.orgName = lookupOrgName(lookup, u.app.OrganizationID),
              !.calls = Append(@, "policy")]

\* mutant: an application without a report returns without sending
afterLatestSkipSilent(u, r, lookup) ==
  LET url == r.info[1].ReportHTMLURL
      c   == Cut(url, Marker)
  IN  IF r.err # Nil
        THEN [u EXCEPT !.latest = r, !.pc = "send",
                !.res = AppReportResult(<<>>,
                  <<"latest report for ">> \o u.app.PublicID \o <<": ">>
                    \o r.err)]
      ELSE IF r.info = <<>> \/ TrimSpace(url) = <<>>
        THEN [u EXCEPT !.latest = r, !.pc = "release",
                !.res = AppReportResult(<<>>, Nil)]
      ELSE IF ~c.found \/ c.after = <<>>
        THEN [u EXCEPT !.latest = r, !.pc = "send",
                !.res = AppReportResult(<<>>,
                  <<"cannot parse report id from ">> \o Quote(url))]
      ELSE [u EXCEPT !.latest = r, !.pc = "policy",
              !.reportID = c.after,
              !.orgName = lookupOrgName(lookup, u.app.OrganizationID),
              !.calls = Append(@, "policy")]

\* mutant: a failed lookup is repeated once
afterLatestRetry(u, r, lookup) ==
  LET url == r.info[1].ReportHTMLURL
      c   == Cut(url, Marker)
  IN  IF r.err # Nil /\ Len(u.calls) < 2
        THEN [u EXCEPT !.latest = r, !.calls = Append(@, "latest")]
      ELSE IF r.err # Nil
        THEN [u EXCEPT !.latest = r, !.pc = "send",
                !.res = AppReportResult(<<>>,
                  <<"latest report for ">> \o u.app.PublicID \o <<": ">>
                    \o r.err)]
      ELSE IF r.info = <<>> \/ TrimSpace(url) = <<>>
        THEN [u EXCEPT !.latest = r, !.pc = "send",
                !.res = AppReportResult(<<>>, Nil)]
      ELSE IF ~c.found \/ c.after = <<>>
        THEN [u EXCEPT !.latest = r, !.pc = "send",
                !.res = AppReportResult(<<>>,
                  <<"cannot parse report id from ">> \o Quote(url))]
      ELSE [u EXCEPT !.latest = r, !.pc = "policy",
              !.reportID = c.after,
              !.orgName = lookupOrgName(lookup, u.app.OrganizationID),
              !.calls = Append(@, "policy")]

\* the frame after GetLatestReportInfo returned r: steps 2a to 2c, up to the
\* dispatch of GetPolicyViolations
afterLatest(u, r, lookup) ==
  LET url == r.info[1].ReportHTMLURL
      c   == Cut(url, Marker)
  IN  IF r.err # Nil
        THEN [u EXCEPT !.latest = r, !.pc = "send",
                !.res = AppReportResult(<<>>,
                  <<"latest report for ">> \o u.app.PublicID \o <<": ">>
                    \o r.err)]
      ELSE IF r.info = <<>> \/ TrimSpace(url) = <<>>
        THEN [u EXCEPT !.latest = r, !.pc = "send",
                !.res = AppReportResult(<<>>, Nil)]
      ELSE IF ~c.found \/ c.after = <<>>
        THEN [u EXCEPT !.latest = r, !.pc = "send",
                !.res = AppReportResult(<<>>,
                  <<"cannot parse report id from ">> \o Quote(url))]
      ELSE [u EXCEPT !.latest = r, !.pc = "policy",
              !.reportID = c.after,
              !.orgName = lookupOrgName(lookup, u.app.OrganizationID),
              !.calls = Append(@, "policy")]

LatestReturns(u, raw) ==
  /\ u.pc = "latest"
  /\ units' = Move(u,
       [afterLatest(u, GetLatestReportInfo(raw), orgIDToName)
          EXCEPT !.lookup = <<raw>>])
  /\ UNCHANGED cfgVars
  /\ UNCHANGED <<ctxDone, genVars, gateVars, fileVars>>

\* mutant: the error of GetPolicyViolations is passed on as it is
afterPolicyUnwrapped(u, r) ==
  IF r.err # Nil
    THEN [u EXCEPT !.pc = "send", !.res = AppReportResult(<<>>, r.err)]
    ELSE [u EXCEPT !.pc = "send",
            !.res = AppReportResult(reportRows(r.rows), Nil)]

\* the frame after GetPolicyViolations returned r: steps 2d to 2f
afterPolicy(u, r) ==
  IF r.err # Nil
    THEN [u EXCEPT !.pc = "send",
            !.res = AppReportResult(<<>>,
              <<"policy violations for ">> \o u.app.PublicID \o <<": ">>
                \o r.err)]
    ELSE [u EXCEPT !.pc = "send",
            !.res = AppReportResult(reportRows(r.rows), Nil)]

PolicyReturns(u, raw) ==
  /\ u.pc = "policy"
  /\ units' = Move(u,
       [afterPolicy(u, GetPolicyViolations(raw, u.app.PublicID, u.reportID,
                                           u.orgName))
          EXCEPT !.report = IF raw.err = Nil /\ ~IsError(raw)
                              THEN <<raw.result>> ELSE <<>>])
  /\ UNCHANGED cfgVars
  /\ UNCHANGED <<ctxDone, genVars, gateVars, fileVars>>

\* mutant: a channel without buffer; the send waits for the merge loop
SendUnbuffered(u) ==
  /\ u.pc = "send"
  /\ gpc = "merge"
  /\ resultsChan = <<>>
  /\ resultsChan' = Append(resultsChan, u.res)
  /\ units' = Move(u, [u EXCEPT !.pc = "release"])
  /\ UNCHANGED cfgVars
  /\ UNCHANGED <<ctxDone, genVars, sem, wg, chanClosed, closer, fileVars>>

\* resultsChan <- AppReportResult{...}
Send(u) ==
  /\ u.pc = "send"
  /\ Len(resultsChan) < Len(apps)
  /\ resultsChan' = Append(resultsChan, u.res)
  /\ units' = Move(u, [u EXCEPT !.pc = "release"])
  /\ UNCHANGED cfgVars
  /\ UNCHANGED <<ctxDone, genVars, sem, wg, chanClosed, closer, fileVars>>

\* mutant: a goroutine cancelled at its start returns without freeing its
\* slot
ReleaseUnlessCancelled(u) ==
  /\ u.pc = "release"
  /\ sem' = IF u.calls = <<>> THEN sem ELSE sem - 1
  /\ units' = Move(u, [u EXCEPT !.pc = "wgdone"])
  /\ UNCHANGED cfgVars
  /\ UNCHANGED <<ctxDone, genVars, wg, resultsChan, chanClosed, closer,
                 fileVars>>

\* deferred: <-sem
Release(u) ==
  /\ u.pc = "release"
  /\ sem' = sem - 1
  /\ units' = Move(u, [u EXCEPT !.pc = "wgdone"])
  /\ UNCHANGED cfgVars
  /\ UNCHANGED <<ctxDone, genVars, wg, resultsChan, chanClosed, closer,
                 fileVars>>

\* deferred: wg.Done().  The goroutine returns; its frame stays in the bag as
\* it was, as the history of what the goroutine did.
Done(u) ==
  /\ u.pc = "wgdone"
  /\ wg' = wg - 1
  /\ units' = Move(u, [u EXCEPT !.pc = "done"])
  /\ UNCHANGED cfgVars
  /\ UNCHANGED <<ctxDone, genVars, sem, resultsChan, chanClosed, closer,
                 fileVars>>

(***************************************************************************)
(* The merge loop: for res := range resultsChan.                           *)
(***************************************************************************)
\* mutant: an outcome with an error is passed over
ReceiveSkippingErrors ==
  /\ gpc = "merge"
  /\ resultsChan # <<>>
  /\ resultsChan' = Tail(resultsChan)
  /\ received' = Append(received, Head(resultsChan))
  /\ allViolationRows' = allViolationRows \o Head(resultsChan).Rows
  /\ UNCHANGED <<gpc, ret>>
  /\ UNCHANGED cfgVars
  /\ UNCHANGED <<ctxDone, apps, orgIDToName, launched, fetched, units, sem,
                 wg, chanClosed, closer, fileVars>>

\* mutant: the rows of an outcome replace the rows merged so far
ReceiveReplacing ==
  /\ gpc = "merge"
  /\ resultsChan # <<>>
  /\ resultsChan' = Tail(resultsChan)
  /\ received' = Append(received, Head(resultsChan))
  /\ LET res == Head(resultsChan)
     IN  IF res.Err # Nil
           THEN /\ ret' = Returned(<<>>, res.Err)
                /\ gpc' = "returned"
                /\ allViolationRows' = <<>>
           ELSE /\ allViolationRows' = res.Rows
                /\ UNCHANGED <<gpc, ret>>
  /\ UNCHANGED cfgVars
  /\ UNCHANGED <<ctxDone, apps, orgIDToName, launched, fetched, units, sem,
                 wg, chanClosed, closer, fileVars>>

\* mutant: the outcome taken stays at the head of the channel
ReceivePeeking ==
  /\ gpc = "merge"
  /\ resultsChan # <<>>
  /\ resultsChan' = resultsChan
  /\ received' = Append(received, Head(resultsChan))
  /\ LET res == Head(resultsChan)
     IN  IF res.Err # Nil
           THEN /\ ret' = Returned(<<>>, res.Err)
                /\ gpc' = "returned"
                /\ allViolationRows' = <<>>
           ELSE /\ allViolationRows' = allViolationRows \o res.Rows
                /\ UNCHANGED <<gpc, ret>>
  /\ UNCHANGED cfgVars
  /\ UNCHANGED <<ctxDone, apps, orgIDToName, launched, fetched, units, sem,
                 wg, chanClosed, closer, fileVars>>

\* mutant: the rows of an outcome are put before the rows merged so far
ReceivePrepending ==
  /\ gpc = "merge"
  /\ resultsChan # <<>>
  /\ resultsChan' = Tail(resultsChan)
  /\ received' = Append(received, Head(resultsChan))
  /\ LET res == Head(resultsChan)
     IN  IF res.Err # Nil
           THEN /\ ret' = Returned(<<>>, res.Err)
                /\ gpc' = "returned"
                /\ allViolationRows' = <<>>
           ELSE /\ allViolationRows' = res.Rows \o allViolationRows
                /\ UNCHANGED <<gpc, ret>>
  /\ UNCHANGED cfgVars
  /\ UNCHANGED <<ctxDone, apps, orgIDToName, launched, fetched, units, sem,
                 wg, chanClosed, closer, fileVars>>

Receive ==
  /\ gpc = "merge"
  /\ resultsChan # <<>>
  /\ resultsChan' = Tail(resultsChan)
  /\ received' = Append(received, Head(resultsChan))
  /\ LET res == Head(resultsChan)
     IN  IF res.Err # Nil
           THEN /\ ret' = Returned(<<>>, res.Err)
                /\ gpc' = "returned"
                /\ allViolationRows' = <<>>
           ELSE /\ allViolationRows' = allViolationRows \o res.Rows
                /\ UNCHANGED <<gpc, ret>>
  /\ UNCHANGED cfgVars
  /\ UNCHANGED <<ctxDone, apps, orgIDToName, launched, fetched, units, sem,
                 wg, chanClosed, closer, fileVars>>

\* mutant: the loop ends when the channel is empty, closed or not
RangeEndsOnEmpty ==
  /\ gpc = "merge"
  /\ resultsChan = <<>>
  /\ gpc' = "write"
  /\ wr' = [WriteIdle EXCEPT !.pc = "mkdir"]
  /\ UNCHANGED cfgVars
  /\ UNCHANGED <<ctxDone, apps, orgIDToName, launched, allViolationRows,
                 fetched, received, ret, units, gateVars, fs, fs0, crashed>>

\* the channel is closed and drained: the loop ends and WriteCSV is called
RangeEnds ==
  /\ gpc = "merge"
  /\ resultsChan = <<>>
  /\ chanClosed
  /\ gpc' = "write"
  /\ wr' = [WriteIdle EXCEPT !.pc = "mkdir"]
  /\ UNCHANGED cfgVars
  /\ UNCHANGED <<ctxDone, apps, orgIDToName, launched, allViolationRows,
                 fetched, received, ret, units, gateVars, fs, fs0, crashed>>

(***************************************************************************)
(* report.WriteCSV(target, allViolationRows).  Every system call can fail  *)
(* (ok = FALSE) with IOErr.  failed(step) leaves through the deferred      *)
(* cleanup, which exists once the temporary file was created.              *)
(***************************************************************************)
IOErr == <<"input/output error">>

Writing(pc) == ~crashed /\ gpc = "write" /\ wr.pc = pc

\* rows, the second argument of WriteCSV
rows == allViolationRows

failed(step, next) == [wr EXCEPT !.err = step \o IOErr, !.pc = next]

\* os.MkdirAll(dir, 0o755)
MkdirAll(ok) ==
  /\ Writing("mkdir")
  /\ IF ok
       THEN /\ fs' = [fs EXCEPT !.dir = TRUE]
            /\ wr' = [wr EXCEPT !.pc = "createtemp"]
       ELSE /\ fs' = fs
            /\ wr' = failed(<<"prepare output dir: ">>, "return")
  /\ UNCHANGED cfgVars
  /\ UNCHANGED <<ctxDone, genVars, units, gateVars, fs0, crashed>>

\* os.CreateTemp(dir, ".tmp-*.csv"): a new, empty file of mode 0600
CreateTemp(ok) ==
  /\ Writing("createtemp")
  /\ IF ok
       THEN /\ fs' = [fs EXCEPT
                       !.tmp = <<[data |-> <<>>, durable |-> 0,
                                  mode |-> "0600"]>>]
            /\ wr' = [wr EXCEPT !.open = TRUE, !.pc = "header"]
       ELSE /\ fs' = fs
            /\ wr' = failed(<<"create temp file: ">>, "return")
  /\ UNCHANGED cfgVars
  /\ UNCHANGED <<ctxDone, genVars, units, gateVars, fs0, crashed>>

\* mutant: no header for an empty row collection
WriteHeaderUnlessEmpty(ok) ==
  /\ Writing("header")
  /\ wr' = IF ok
             THEN [wr EXCEPT !.w = IF rows = <<>> THEN @
                                   ELSE Append(@, csvHeaders),
                             !.pc = "rows"]
             ELSE failed(<<"write header: ">>, "cleanup")
  /\ UNCHANGED cfgVars
  /\ UNCHANGED <<ctxDone, genVars, units, gateVars, fs, fs0, crashed>>

\* w.Write(csvHeaders()): into the buffer of the csv.Writer
WriteHeader(ok) ==
  /\ Writing("header")
  /\ wr' = IF ok
             THEN [wr EXCEPT !.w = Append(@, csvHeaders), !.pc = "rows"]
             ELSE failed(<<"write header: ">>, "cleanup")
  /\ UNCHANGED cfgVars
  /\ UNCHANGED <<ctxDone, genVars, units, gateVars, fs, fs0, crashed>>

\* one pass of: for i, r := range rows { w.Write(record) }
WriteRow(ok) ==
  /\ Writing("rows")
  /\ wr.i < Len(rows)
  /\ wr' = IF ok
             THEN [wr EXCEPT
                     !.w = Append(@, record(wr.i, rows[wr.i + 1])),
                     !.i = @ + 1]
             ELSE failed(<<"write row ">> \o Itoa(wr.i + 1) \o <<": ">>,
                         "cleanup")
  /\ UNCHANGED cfgVars
  /\ UNCHANGED <<ctxDone, genVars, units, gateVars, fs, fs0, crashed>>

\* w.Flush(); w.Error(): the buffer reaches the temporary file; a failing
\* flush may leave any part of it there (n records)
Flush(ok, n) ==
  /\ Writing("rows")
  /\ wr.i = Len(rows)
  /\ n \in 0..Len(wr.w)
  /\ ok => n = Len(wr.w)
  /\ fs' = [fs EXCEPT !.tmp[1].data = @ \o SubSeq(wr.w, 1, n)]
  /\ wr' = IF ok
             THEN [wr EXCEPT !.w = <<>>, !.pc = "sync"]
             ELSE failed(<<"flush csv: ">>, "cleanup")
  /\ UNCHANGED cfgVars
  /\ UNCHANGED <<ctxDone, genVars, units, gateVars, fs0, crashed>>

\* mutant: the temporary file is not forced to stable storage
SyncSkipped(ok) ==
  /\ Writing("sync")
  /\ fs' = fs
  /\ wr' = IF ok THEN [wr EXCEPT !.pc = "close"]
                 ELSE failed(<<"fsync temp: ">>, "cleanup")
  /\ UNCHANGED cfgVars
  /\ UNCHANGED <<ctxDone, genVars, units, gateVars, fs0, crashed>>

\* tmp.Sync()
Sync(ok) ==
  /\ Writing("sync")
  /\ IF ok
       THEN /\ fs' = [fs EXCEPT !.tmp[1].durable = Len(fs.tmp[1].data)]
            /\ wr' = [wr EXCEPT !.pc = "close"]
       ELSE /\ fs' = fs
            /\ wr' = failed(<<"fsync temp: ">>, "cleanup")
  /\ UNCHANGED cfgVars
  /\ UNCHANGED <<ctxDone, genVars, units, gateVars, fs0, crashed>>

\* mutant: the error of tmp.Close() is dropped
CloseIgnoringError(ok) ==
  /\ Writing("close")
  /\ wr' = [wr EXCEPT !.open = FALSE, !.pc = "rename"]
  /\ UNCHANGED cfgVars
  /\ UNCHANGED <<ctxDone, genVars, units, gateVars, fs, fs0, crashed>>

\* tmp.Close()
Close(ok) ==
  /\ Writing("close")
  /\ wr' = IF ok
             THEN [wr EXCEPT !.open = FALSE, !.pc = "rename"]
             ELSE [failed(<<"close temp: ">>, "cleanup") EXCEPT !.open = FALSE]
  /\ UNCHANGED cfgVars
  /\ UNCHANGED <<ctxDone, genVars, units, gateVars, fs, fs0, crashed>>

\* os.Rename(tmpPath, path): the temporary file becomes the destination
Rename(ok) ==
  /\ Writing("rename")
  /\ IF ok
       THEN /\ fs' = [fs EXCEPT !.dest = fs.tmp, !.tmp = NoFile]
            /\ wr' = [wr EXCEPT !.pc = "chmod"]
       ELSE /\ fs' = fs
            /\ wr' = failed(<<"atomic rename: ">>, "cleanup")
  /\ UNCHANGED cfgVars
  /\ UNCHANGED <<ctxDone, genVars, units, gateVars, fs0, crashed>>

\* mutant: the mode of the renamed file is left as CreateTemp made it
ChmodSkipped(ok) ==
  /\ Writing("chmod")
  /\ fs' = fs
  /\ wr' = IF ok THEN [wr EXCEPT !.pc = "cleanup"]
                 ELSE failed(<<"chmod: ">>, "cleanup")
  /\ UNCHANGED cfgVars
  /\ UNCHANGED <<ctxDone, genVars, units, gateVars, fs0, crashed>>

\* os.Chmod(path, 0o644)
Chmod(ok) ==
  /\ Writing("chmod")
  /\ IF ok
       THEN /\ fs' = [fs EXCEPT !.dest[1].mode = "0644"]
            /\ wr' = [wr EXCEPT !.pc = "cleanup"]
       ELSE /\ fs' = fs
            /\ wr' = failed(<<"chmod: ">>, "cleanup")
  /\ UNCHANGED cfgVars
  /\ UNCHANGED <<ctxDone, genVars, units, gateVars, fs0, crashed>>

\* mutant: the deferred removal names path, not tmpPath
CleanupRemovingPath(removed) ==
  /\ Writing("cleanup")
  /\ fs' = IF removed THEN [fs EXCEPT !.dest = NoFile] ELSE fs
  /\ wr' = [wr EXCEPT !.open = FALSE, !.pc = "return"]
  /\ UNCHANGED cfgVars
  /\ UNCHANGED <<ctxDone, genVars, units, gateVars, fs0, crashed>>

\* deferred: _ = tmp.Close(); _ = os.Remove(tmpPath).  The removal is best
\* effort (removed = FALSE: it failed) and finds no file after a rename.
Cleanup(removed) ==
  /\ Writing("cleanup")
  /\ fs' = IF removed THEN [fs EXCEPT !.tmp = NoFile] ELSE fs
  /\ wr' = [wr EXCEPT !.open = FALSE, !.pc = "return"]
  /\ UNCHANGED cfgVars
  /\ UNCHANGED <<ctxDone, genVars, units, gateVars, fs0, crashed>>

\* WriteCSV returns, and GenerateLatestPolicyReport with it
WriteReturns ==
  /\ Writing("return")
  /\ ret' = IF wr.err # Nil
              THEN Returned(<<>>, <<"write csv: ">> \o wr.err)
              ELSE Returned(target, Nil)
  /\ gpc' = "returned"
  /\ wr' = [wr EXCEPT !.pc = "done"]
  /\ UNCHANGED cfgVars
  /\ UNCHANGED <<ctxDone, apps, orgIDToName, launched, allViolationRows,
                 fetched, received, units, gateVars, fs, fs0, crashed>>

(***************************************************************************)
(* The process dies while WriteCSV runs.  What survives of a file is its   *)
(* durable records and any part of the rest.                               *)
(***************************************************************************)
Survives(file, n) ==
  IF file = NoFile THEN NoFile
  ELSE <<[file[1] EXCEPT !.data = SubSeq(@, 1, n)]>>

CanSurvive(file) ==
  IF file = NoFile THEN {0} ELSE file[1].durable..Len(file[1].data)

Crash ==
  /\ ~crashed
  /\ gpc = "write"
  /\ crashed' = TRUE
  /\ \E d \in CanSurvive(fs.dest), t \in CanSurvive(fs.tmp) :
       fs' = [fs EXCEPT !.dest = Survives(fs.dest, d),
                        !.tmp  = Survives(fs.tmp, t)]
  /\ UNCHANGED cfgVars
  /\ UNCHANGED <<ctxDone, genVars, units, gateVars, wr, fs0>>

(***************************************************************************)
(* Specifications.                                                         *)
(*   Spec      GenerateLatestPolicyReport over every answer of the remote  *)
(*             source for up to MaxApps applications.                      *)
(*   SpecLive  Spec under a fair scheduler, every remote call returning.    *)
(*   SpecLoad  LoadApps applications that all have a report of one row,    *)
(*             under no deadline: the admission gate under load.           *)
(*   SpecWrite WriteCSV called on its own, as its test does, with up to    *)
(*             MaxRows rows, the process dying at any point.               *)
(*   SpecFlatten  one goroutine whose violation fetch returns a report of  *)
(*             up to MaxComps components of up to MaxViols violations.     *)
(*   SpecConfig   config.Load called in every environment of Envs, with    *)
(*             and without a file config/.env.                             *)
(***************************************************************************)
UnitStep(latestOutcomes, policyOutcomes) ==
  \E u \in Running :
    \/ Acquire(u)
    \/ CheckContext(u)
    \/ \E raw \in latestOutcomes : LatestReturns(u, raw)
    \/ \E raw \in policyOutcomes : PolicyReturns(u, raw)
    \/ Send(u)
    \/ Release(u)
    \/ Done(u)

GenStep ==
  \/ Launch
  \/ StartCloser
  \/ CloseResults
  \/ Receive
  \/ RangeEnds

WriteStep ==
  \/ \E ok \in BOOLEAN : MkdirAll(ok)
  \/ \E ok \in BOOLEAN : CreateTemp(ok)
  \/ \E ok \in BOOLEAN : WriteHeader(ok)
  \/ \E ok \in BOOLEAN : WriteRow(ok)
  \/ \E ok \in BOOLEAN : \E n \in 0..Len(wr.w) : Flush(ok, n)
  \/ \E ok \in BOOLEAN : Sync(ok)
  \/ \E ok \in BOOLEAN : Close(ok)
  \/ \E ok \in BOOLEAN : Rename(ok)
  \/ \E ok \in BOOLEAN : Chmod(ok)
  \/ \E removed \in BOOLEAN : Cleanup(removed)
  \/ WriteReturns

Next ==
  \/ Deadline
  \/ \E raw \in Outcomes(AppsPayloads, ctxDone) : FetchApplications(raw)
  \/ \E raw \in Outcomes(OrgLists, ctxDone) : FetchOrganizations(raw)
  \/ GenStep
  \/ UnitStep(Outcomes(LatestPayloads, ctxDone),
              Outcomes(ViolPayloads, ctxDone))
  \/ WriteStep

Spec == Init /\ [][Next]_vars

NextLoad ==
  \/ \E raw \in {OK(p) : p \in LoadAppsPayloads} : FetchApplications(raw)
  \/ \E raw \in {OK(p) : p \in LoadOrgLists} : FetchOrganizations(raw)
  \/ GenStep
  \/ UnitStep({OK(p) : p \in LoadLatestPayloads},
              {OK(p) : p \in LoadViolPayloads})
  \/ WriteStep

InitLoad == Init /\ fs.dest = NoFile

\* a step of the program: any step but the firing of the deadline
ProgramStep == Next /\ ctxDone' = ctxDone

\* the Go scheduler runs every goroutine that can run, and every call to
\* the remote source returns
SpecLive == Spec /\ WF_vars(ProgramStep)

SpecLoad == InitLoad /\ [][NextLoad]_vars

\* the rows of the writer's test, the second with a CVE
TestRow1 ==
  [Application |-> <<"app-1">>, Organization |-> <<"org-1">>,
   Policy |-> <<"Security-Medium">>, Component |-> <<"comp-1">>,
   Threat |-> 7, PolicyAction |-> <<"Security-7">>,
   ConstraintName |-> <<"Medium risk CVSS score">>,
   Condition |-> <<"Security Vulnerability Severity >= 4">>, CVE |-> <<>>]
TestRow2 ==
  [Application |-> <<"app-2">>, Organization |-> <<"org-1">>,
   Policy |-> <<"Security-High">>, Component |-> <<"comp-2">>,
   Threat |-> 9, PolicyAction |-> <<"Security-9">>,
   ConstraintName |-> <<"High risk CVSS score">>,
   Condition |-> <<"Security Vulnerability Severity >= 7">>,
   CVE |-> <<"CVE-2024-0001">>]

InitWrite ==
  /\ ctxDone = FALSE
  /\ gpc = "write"
  /\ apps = <<>>
  /\ orgIDToName = <<>>
  /\ launched = 0
  /\ units = EmptyBag
  /\ sem = 0
  /\ wg = 0
  /\ resultsChan = <<>>
  /\ chanClosed = FALSE
  /\ closer = "none"
  /\ allViolationRows \in SeqsUpTo({TestRow1, TestRow2}, MaxRows)
  /\ fetched = <<>>
  /\ received = <<>>
  /\ ret = Returned(<<>>, Nil)
  /\ wr = [WriteIdle EXCEPT !.pc = "mkdir"]
  /\ fs \in FileSystems
  /\ fs0 = fs
  /\ crashed = FALSE
  /\ environ = [env |-> TestEnv, file |-> <<>>]
  /\ cfg = Load(environ.env, environ.file)

NextWrite ==
  \/ WriteStep
  \/ Crash

SpecWrite == InitWrite /\ [][NextWrite]_vars

\* one goroutine whose GetPolicyViolations call is about to return
InitFlatten ==
  /\ ctxDone = FALSE
  /\ gpc = "merge"
  /\ apps \in {<<a>> : a \in Applications}
  /\ orgIDToName = buildOrgIDToName(<<Org1>>, <<>>)
  /\ launched = 1
  /\ units = SetToBag({
       afterLatest([NewUnit(apps[1]) EXCEPT
                      !.pc = "latest", !.calls = <<"latest">>,
                      !.lookup = <<OK(<<ReportInfo(GoodLocator)>>)>>],
                   GetLatestReportInfo(OK(<<ReportInfo(GoodLocator)>>)),
                   orgIDToName)})
  /\ sem = 1
  /\ wg = 1
  /\ resultsChan = <<>>
  /\ chanClosed = FALSE
  /\ closer = "waiting"
  /\ allViolationRows = <<>>
  /\ fetched = <<"applications", "organizations">>
  /\ received = <<>>
  /\ ret = Returned(<<>>, Nil)
  /\ wr = WriteIdle
  /\ fs = [dir |-> TRUE, dest |-> NoFile, tmp |-> NoFile]
  /\ fs0 = fs
  /\ crashed = FALSE
  /\ environ = [env |-> TestEnv, file |-> <<>>]
  /\ cfg = Load(environ.env, environ.file)

NextFlatten ==
  \E u \in Running :
    u.pc = "policy" /\ \E p \in FlatPayloads : PolicyReturns(u, OK(p))

SpecFlatten == InitFlatten /\ [][NextFlatten]_vars

\* cfg, err := config.Load()
LoadConfig ==
  /\ cfg = NotLoaded
  /\ cfg' = Load(environ.env, environ.file)
  /\ UNCHANGED <<environ, ctxDone, genVars, units, gateVars, fileVars>>

InitConfig ==
  /\ ctxDone = FALSE
  /\ gpc = "getapps"
  /\ apps = <<>>
  /\ orgIDToName = <<>>
  /\ launched = 0
  /\ units = EmptyBag
  /\ sem = 0
  /\ wg = 0
  /\ resultsChan = <<>>
  /\ chanClosed = FALSE
  /\ closer = "none"
  /\ allViolationRows = <<>>
  /\ fetched = <<>>
  /\ received = <<>>
  /\ ret = Returned(<<>>, Nil)
  /\ wr = WriteIdle
  /\ fs = [dir |-> FALSE, dest |-> NoFile, tmp |-> NoFile]
  /\ fs0 = fs
  /\ crashed = FALSE
  /\ environ \in [env : Envs, file : DotEnvFiles]
  /\ cfg = NotLoaded

NextConfig == LoadConfig

SpecConfig == InitConfig /\ [][NextConfig]_vars

(***************************************************************************)
(* Vocabulary of the properties.                                           *)
(***************************************************************************)
RECURSIVE CopiesOf(_, _)
CopiesOf(S, b) ==
  IF S = {} THEN 0
  ELSE LET x == CHOOSE y \in S : TRUE
       IN  CopiesIn(x, b) + CopiesOf(S \ {x}, b)

\* the number of goroutines standing at one of pcs
NumAt(pcs) == CopiesOf({u \in Running : u.pc \in pcs}, units)

\* between the send on sem and the receive from it
InFlightPcs == {"check", "latest", "policy", "send", "release"}
\* the outcome is on the channel, or was
SentPcs == {"release", "wgdone", "done"}
\* GetLatestReportInfo has returned
LookedUp(u) == u.calls # <<>> /\ u.pc # "latest"

Sent == {u \in Running : u.pc \in SentPcs}
SentErrors == {u.res.Err : u \in {v \in Sent : v.res.Err # Nil}}

\* the error of the first outcome of q that carries one, Nil when none does
FirstError(q) ==
  LET at == {k \in 1..Len(q) : q[k].Err # Nil}
  IN  IF at = {} THEN Nil
      ELSE q[CHOOSE k \in at : \A j \in at : k <= j].Err

HasPrefix(s, prefix) ==
  Len(s) >= Len(prefix) /\ SubSeq(s, 1, Len(prefix)) = prefix

\* the columns of a row after the row number
Fields(r) ==
  << r.Application, r.Organization, r.Policy, r.Component, Itoa(r.Threat),
     r.PolicyAction, r.ConstraintName, r.Condition, r.CVE >>

\* the file WriteCSV is to leave for the rows q
CompleteFile(q) ==
  <<csvHeaders>> \o [k \in 1..Len(q) |-> <<Itoa(k)>> \o Fields(q[k])]

SameContent(f, g) ==
  \/ f = NoFile /\ g = NoFile
  \/ f # NoFile /\ g # NoFile /\ f[1].data = g[1].data

DigitValue(c) == CHOOSE d \in 0..9 : Digit(d) = c

\* the number a decimal numeral spells
RECURSIVE Atoi(_)
Atoi(s) ==
  IF s = <<>> THEN 0
  ELSE 10 * Atoi(SubSeq(s, 1, Len(s) - 1)) + DigitValue(s[Len(s)])

RECURSIVE SeqBag(_)
SeqBag(q) ==
  IF q = <<>> THEN EmptyBag ELSE SetToBag({Head(q)}) (+) SeqBag(Tail(q))

RECURSIVE Times(_, _)
Times(b, n) == IF n = 0 THEN EmptyBag ELSE b (+) Times(b, n - 1)

\* the rows the goroutines of S contributed, as a bag of their fields
RECURSIVE Contributed(_)
Contributed(S) ==
  IF S = {} THEN EmptyBag
  ELSE LET u == CHOOSE v \in S : TRUE
       IN  Times(SeqBag([k \in 1..Len(u.res.Rows) |-> Fields(u.res.Rows[k])]),
                 CopiesIn(u, units))
           (+) Contributed(S \ {u})

RECURSIVE RowCount(_)
RowCount(S) ==
  IF S = {} THEN 0
  ELSE LET u == CHOOSE v \in S : TRUE
       IN  CopiesIn(u, units) * Len(u.res.Rows) + RowCount(S \ {u})

AllLaunched == gpc # "getapps" /\ gpc # "getorgs" /\ launched = Len(apps)
                 /\ Len(apps) > 0

Blank(info) == info = <<>> \/ TrimSpace(info[1].ReportHTMLURL) = <<>>

\* the goroutine skipped its application: the lookup found no report, or a
\* report with a blank locator
Skipped(u) == LookedUp(u) /\ u.latest.err = Nil /\ Blank(u.latest.info)

\* the locator of the report holds no report id
Unparseable(u) ==
  /\ LookedUp(u) /\ u.latest.err = Nil /\ ~Blank(u.latest.info)
  /\ LET c == Cut(u.latest.info[1].ReportHTMLURL, Marker)
     IN  ~c.found \/ c.after = <<>>

ParseError(u) ==
  <<"cannot parse report id from ">> \o Quote(u.latest.info[1].ReportHTMLURL)

(***************************************************************************)
(* C1.  At most 10 goroutines are at any time between acquiring and        *)
(* releasing a slot of the semaphore, whatever the number of applications: *)
(* with 10 in flight, a further goroutine waits at its acquire.            *)
(***************************************************************************)
C1_AtMostTenInFlight == NumAt(InFlightPcs) <= 10

C1_Witness == NumAt(InFlightPcs) = 10 /\ NumAt({"acquire"}) >= 1

(***************************************************************************)
(* C2.  Once a goroutine has contributed an outcome with an error, the     *)
(* merge loop cannot end normally: when GenerateLatestPolicyReport is past *)
(* the loop it has returned, with no path and with the error of the first  *)
(* outcome it received that carries one, which some goroutine contributed; *)
(* WriteCSV was never called and the file system is as before the call.    *)
(***************************************************************************)
C2_FailFast ==
  (SentErrors # {} /\ gpc \in {"write", "returned"}) =>
    /\ gpc = "returned"
    /\ ret.path = <<>>
    /\ ret.err \in SentErrors
    /\ ret.err = FirstError(received)
    /\ wr = WriteIdle
    /\ fs = fs0

\* the run failed on the second outcome, after rows had been merged
C2_Witness ==
  /\ gpc = "returned"
  /\ Len(received) = 2
  /\ received[1].Rows # <<>>
  /\ ret.err = received[2].Err
  /\ ret.err \in SentErrors
  /\ fs = fs0

(***************************************************************************)
(* C3.  At every point of WriteCSV, the process dead or alive, the         *)
(* destination path holds what it held before the call or the complete     *)
(* file, header and all rows.                                              *)
(***************************************************************************)
C3_NeverTorn ==
  \/ SameContent(fs.dest, fs0.dest)
  \/ fs.dest # NoFile /\ fs.dest[1].data = CompleteFile(rows)

\* the process died after the rename, the new file of two rows or more in
\* the place of the old one
C3_Witness ==
  /\ crashed
  /\ fs0.dest = OldFile
  /\ Len(rows) >= 2
  /\ fs.dest # NoFile /\ fs.dest[1].data = CompleteFile(rows)

(***************************************************************************)
(* C4.  Whenever GenerateLatestPolicyReport returns an error, whatever     *)
(* the cause, the destination path holds what it held before the call.     *)
(***************************************************************************)
C4_ErrorLeavesDestination ==
  (gpc = "returned" /\ ret.err # Nil) => fs.dest = fs0.dest

(***************************************************************************)
(* C5.  When a step of WriteCSV up to and including the rename fails,      *)
(* WriteCSV returns the error of that step and the destination path is as  *)
(* before the call, in existence, content and mode.                       *)
(***************************************************************************)
FailedUpToRename == wr.err # Nil /\ ~HasPrefix(wr.err, <<"chmod: ">>)

C5_FailureLeavesDestination ==
  /\ (wr.pc \in {"cleanup", "return", "done"} /\ FailedUpToRename) =>
       fs.dest = fs0.dest
  /\ (gpc = "returned" /\ FailedUpToRename) =>
       ret = Returned(<<>>, <<"write csv: ">> \o wr.err)
  /\ (wr.pc \in {"mkdir", "createtemp", "header", "rows", "sync", "close",
                 "rename"}) => (wr.err = Nil /\ fs.dest = fs0.dest)

\* the rename failed, WriteCSV has returned, the old file is in place
C5_Witness ==
  /\ wr.pc = "done"
  /\ HasPrefix(wr.err, <<"atomic rename: ">>)
  /\ fs0.dest = OldFile
  /\ fs.dest = OldFile
  /\ ~crashed

(***************************************************************************)
(* C6.  When GenerateLatestPolicyReport returns without an error, the      *)
(* file at the destination holds one header and one record for each row    *)
(* the goroutines contributed, none lost and none twice, and the first     *)
(* column of the records counts 1, 2, ... in file order.                   *)
(***************************************************************************)
C6_AllRowsNumbered ==
  (gpc = "returned" /\ ret.err = Nil) =>
    /\ fs.dest # NoFile
    /\ LET data == fs.dest[1].data
           n    == RowCount(Running)
       IN  /\ Len(data) = 1 + n
           /\ \A k \in 1..n : Atoi(data[k + 1][1]) = k
           /\ SeqBag([k \in 1..n |-> Tail(data[k + 1])]) = Contributed(Running)

\* two applications, both with rows, four rows or more together
C6_Witness ==
  /\ gpc = "returned" /\ ret.err = Nil
  /\ Len(received) = 2
  /\ received[1].Rows # <<>> /\ received[2].Rows # <<>>
  /\ received[1].Rows # received[2].Rows
  /\ RowCount(Running) >= 4
  /\ Len(fs.dest[1].data) = 1 + RowCount(Running)

(***************************************************************************)
(* C7.  When the application listing comes back empty,                     *)
(* GenerateLatestPolicyReport returns "no applications found" at once: it  *)
(* fetches no organizations, launches no goroutine and writes no file.     *)
(***************************************************************************)
NoApplications == <<"no applications found">>

C7_NoApplications ==
  /\ [][FetchApplications(OK(<<>>)) =>
          (gpc' = "returned" /\ ret' = Returned(<<>>, NoApplications))]_vars
  /\ [](ret.err = NoApplications =>
          /\ gpc = "returned"
          /\ fetched = <<"applications">>
          /\ apps = <<>> /\ launched = 0 /\ units = EmptyBag
          /\ wr = WriteIdle /\ fs = fs0)

C7_Witness ==
  /\ gpc = "returned" /\ ret = Returned(<<>>, NoApplications)
  /\ fetched = <<"applications">> /\ units = EmptyBag

(***************************************************************************)
(* C8.  A goroutine whose lookup found no report, or a report whose        *)
(* locator is blank once trimmed, contributes no rows and no error and     *)
(* dispatches no violation fetch; when every application is skipped so,    *)
(* the merge ends normally, WriteCSV is called, and the run fails only if  *)
(* WriteCSV does.                                                          *)
(***************************************************************************)
C8_SkipIsNoFailure ==
  /\ \A u \in Running :
       Skipped(u) =>
         /\ u.pc # "policy"
         /\ u.calls = <<"latest">>
         /\ u.res = AppReportResult(<<>>, Nil)
  /\ (gpc = "returned" /\ AllLaunched
        /\ \A u \in Running : u.pc = "done" /\ Skipped(u)) =>
       /\ wr.pc = "done"
       /\ ret.err = Nil \/ ret.err = <<"write csv: ">> \o wr.err
       /\ wr.err = Nil => (ret = Returned(target, Nil)
                             /\ fs.dest[1].data = <<csvHeaders>>)

\* two applications, one without a report and one with a blank locator; the
\* run has succeeded
C8_Witness ==
  /\ gpc = "returned" /\ ret = Returned(target, Nil)
  /\ Len(apps) = 2
  /\ \A u \in Running : u.pc = "done" /\ Skipped(u)
  /\ \E u \in Running : u.latest.info = <<>>
  /\ \E u \in Running :
       u.latest.info # <<>> /\ u.latest.info[1].ReportHTMLURL # <<>>

(***************************************************************************)
(* C9.  As claimed: a goroutine whose locator holds no report id           *)
(* contributes the parse error that quotes the locator, dispatches no      *)
(* violation fetch, and the run fails with that error.                     *)
(***************************************************************************)
C9_RunFailsWithThatError ==
  \A u \in Running :
    (Unparseable(u) /\ u.pc \in SentPcs /\ gpc = "returned") =>
      ret.err = ParseError(u)

(***************************************************************************)
(* C9, amended.  Such a goroutine contributes the parse error that quotes  *)
(* the locator and dispatches no violation fetch; once it has, the run     *)
(* cannot end normally: it fails with the first error outcome received,    *)
(* which is that parse error unless another goroutine's error outcome was  *)
(* received before it.                                                     *)
(***************************************************************************)
C9_ParseErrorFailsRun ==
  \A u \in Running :
    Unparseable(u) =>
      /\ u.pc # "policy"
      /\ u.calls = <<"latest">>
      /\ u.res = AppReportResult(<<>>, ParseError(u))
      /\ Contains(u.res.Err, u.latest.info[1].ReportHTMLURL)
      /\ (u.pc \in SentPcs /\ gpc \in {"write", "returned"}) =>
           /\ gpc = "returned"
           /\ ret.path = <<>>
           /\ ret.err = FirstError(received)
           /\ ret.err \in SentErrors
           /\ (\A k \in 1..Len(received) :
                 received[k].Err \in {Nil, ParseError(u)}) =>
                ret.err = ParseError(u)

\* the run has failed with the parse error of a locator that ends in the
\* marker, after another application's rows were merged
C9_Witness ==
  /\ gpc = "returned"
  /\ Len(received) = 2 /\ received[1].Rows # <<>>
  /\ \E u \in Running :
       /\ Unparseable(u) /\ u.pc \in SentPcs
       /\ Cut(u.latest.info[1].ReportHTMLURL, Marker).found
       /\ ret.err = ParseError(u)

(***************************************************************************)
(* C10.  Every failure of a goroutine's lookup, locator parse or violation *)
(* fetch gives an error outcome whose message holds the public id of the   *)
(* goroutine's application, and the error the caller gets from the merge   *)
(* is such an outcome's error, unchanged.                                  *)
(***************************************************************************)
C10_ErrorsNameTheApplication ==
  /\ \A u \in Running :
       (u.pc \in {"send"} \cup SentPcs /\ u.calls # <<>> /\ u.res.Err # Nil) =>
         Contains(u.res.Err, u.app.PublicID)
  /\ (gpc = "returned" /\ FirstError(received) # Nil) =>
       ret.err = FirstError(received)

(***************************************************************************)
(* C11.  A goroutine whose application's organization id is no key of the  *)
(* lookup does not fail for that: it dispatches the violation fetch with   *)
(* the raw id as organization name, the only error it can then contribute  *)
(* is the fetch's, and every row it contributes has the raw id as its      *)
(* Organization.                                                           *)
(***************************************************************************)
\* the lookup returned a report whose locator holds a report id
Parsed(u) ==
  LookedUp(u) /\ u.latest.err = Nil /\ ~Blank(u.latest.info) /\ ~Unparseable(u)

C11_UnknownOrganization ==
  \A u \in Running :
    (Parsed(u) /\ u.app.OrganizationID \notin DOMAIN orgIDToName) =>
      /\ u.calls = <<"latest", "policy">>
      /\ u.orgName = u.app.OrganizationID
      /\ u.res.Err # Nil => HasPrefix(u.res.Err, <<"policy violations for ">>)
      /\ \A k \in 1..Len(u.res.Rows) :
           u.res.Rows[k].Organization = u.app.OrganizationID

\* the run has succeeded with the rows of an application whose organization
\* is not listed, next to one whose organization is
C11_Witness ==
  /\ gpc = "returned" /\ ret.err = Nil
  /\ orgIDToName # <<>>
  /\ \E u \in Running :
       /\ u.app.OrganizationID \notin DOMAIN orgIDToName
       /\ Len(u.res.Rows) >= 3
       /\ \A k \in 1..Len(u.res.Rows) : u.res.Rows[k].Organization # <<>>
  /\ \E u \in Running :
       /\ u.app.OrganizationID \in DOMAIN orgIDToName
       /\ u.res.Rows # <<>>

(***************************************************************************)
(* C12.  A goroutine that finds the deadline fired when it checks the      *)
(* context, right after acquiring its slot, contributes the context's      *)
(* error and dispatches no client call: once the deadline has fired no     *)
(* goroutine dispatches its first call, and a goroutine past the check     *)
(* without a call holds the context's error as its outcome.  Its send      *)
(* cannot block, and its slot is given back: the occupied slots are at     *)
(* all times those of the goroutines between acquire and release.          *)
(***************************************************************************)
\* goroutines that have dispatched a client call
NumDispatched == CopiesOf({u \in Running : u.calls # <<>>}, units)

\* the goroutine left at the check of the context
Cancelled(u) == u.calls = <<>> /\ u.pc \notin {"acquire", "check"}

C12_CancelledAtStart ==
  /\ [][ctxDone => NumDispatched' = NumDispatched]_vars
  /\ [](/\ \A u \in Running :
             /\ Cancelled(u) =>
                  (ctxDone /\ u.res = AppReportResult(<<>>, CtxErr)
                     /\ u.latest = NewUnit(u.app).latest /\ u.report = <<>>)
             /\ u.pc = "send" => Len(resultsChan) < Len(apps)
        /\ sem = NumAt(InFlightPcs))

\* both goroutines were cancelled at their start and have finished; all
\* slots are free and the run has failed with the context's error
C12_Witness ==
  /\ ctxDone
  /\ Len(apps) = 2
  /\ \A u \in Running : u.pc = "done" /\ Cancelled(u)
  /\ sem = 0
  /\ gpc = "returned" /\ ret = Returned(<<>>, CtxErr)

AbortedCall(u, what) ==
  what \o u.app.PublicID \o <<": ", "request failed: ">> \o CtxErr

NoneRunning == \A u \in Running : u.pc = "done"

AllDone == launched = Len(apps) /\ NoneRunning

C14_WaitsThenMerges ==
  (received # <<>> \/ gpc \in {"write", "returned"}) => NoneRunning

(***************************************************************************)
(* C14, amended.  The merge takes the outcomes as they arrive, while       *)
(* goroutines may still be running, and returns at the first one with an   *)
(* error.  It ends normally, and WriteCSV is called, only after every      *)
(* goroutine has finished and the channel is closed: all outcomes have     *)
(* then been merged.                                                       *)
(***************************************************************************)
C14_MergeEndsAfterAll ==
  wr # WriteIdle =>
    /\ AllDone
    /\ wg = 0
    /\ chanClosed
    /\ resultsChan = <<>>
    /\ Len(received) = Len(apps)
    /\ FirstError(received) = Nil

\* WriteCSV has been called after the outcomes of two goroutines, one with
\* rows, were merged
C14_Witness ==
  /\ gpc = "write" /\ wr.pc = "mkdir"
  /\ Len(apps) = 2 /\ AllDone
  /\ Len(received) = 2
  /\ received[1].Rows = <<>> /\ received[2].Rows # <<>>

(***************************************************************************)
(* C15.  The channel is closed once, by the closer goroutine and only      *)
(* after every goroutine of the launch loop has finished; nothing is sent  *)
(* on it once it is closed, and it stays closed.  This holds as well after *)
(* GenerateLatestPolicyReport has returned at an error outcome.            *)
(***************************************************************************)
C15_ClosedOnceAfterAll ==
  /\ [](chanClosed <=> closer = "done")
  /\ [](chanClosed => (AllDone /\ wg = 0 /\ Len(apps) > 0))
  /\ [][chanClosed' # chanClosed =>
          (~chanClosed /\ closer = "waiting" /\ closer' = "done")]_vars
  /\ [][closer = "done" => closer' = "done"]_vars
  /\ [][chanClosed => Len(resultsChan') <= Len(resultsChan)]_vars

\* the run returned at the error outcome of the first goroutine; the second
\* one sent afterwards, and the channel was closed with that outcome in it
C15_Witness ==
  /\ gpc = "returned" /\ ret.err # Nil
  /\ Len(apps) = 2 /\ AllDone
  /\ chanClosed
  /\ Len(received) = 1
  /\ Len(resultsChan) = 1

(***************************************************************************)
(* C16.  As claimed: when GenerateLatestPolicyReport has returned, every   *)
(* outcome a goroutine contributed has been received from the channel and  *)
(* none is left in it.                                                     *)
(***************************************************************************)
\* the outcomes of the goroutines of S, each as often as it was contributed
RECURSIVE Outcomes_of(_)
Outcomes_of(S) ==
  IF S = {} THEN EmptyBag
  ELSE LET u == CHOOSE v \in S : TRUE
       IN  Times(SetToBag({u.res}), CopiesIn(u, units))
           (+) Outcomes_of(S \ {u})

C16_AllConsumedAtReturn ==
  gpc = "returned" =>
    /\ resultsChan = <<>>
    /\ SeqBag(received) = Outcomes_of(Sent)

(***************************************************************************)
(* C16, amended.  An outcome a goroutine contributed is in the channel or  *)
(* was received from it, never both and never twice.  When the merge ends  *)
(* normally every outcome has been received exactly once and none is left; *)
(* when the merge returns at an error outcome, the outcomes behind it are  *)
(* never received.                                                         *)
(***************************************************************************)
C16_ConsumedAtMostOnce ==
  /\ SeqBag(received) (+) SeqBag(resultsChan) = Outcomes_of(Sent)
  /\ wr # WriteIdle =>
       /\ resultsChan = <<>>
       /\ SeqBag(received) = Outcomes_of(Running)
       /\ Len(received) = Len(apps)
  /\ (gpc = "returned" /\ wr = WriteIdle /\ received # <<>>) =>
       /\ received[Len(received)].Err = ret.err
       /\ \A k \in 1..(Len(received) - 1) : received[k].Err = Nil

\* the merge ended normally after the outcomes of two goroutines, both with
\* rows, of the same application
C16_Witness ==
  /\ wr # WriteIdle
  /\ Len(received) = 2
  /\ received[1] = received[2]
  /\ received[1].Rows # <<>>
  /\ resultsChan = <<>>

(***************************************************************************)
(* C17.  The applications are fetched first, the organizations after them, *)
(* and no goroutine exists before both calls have returned and the lookup  *)
(* is built: it then maps every listed organization id to the name of its  *)
(* last entry.  The lookup changes only in the step in which               *)
(* GetOrganizations returns, never once the launch loop has begun.         *)
(***************************************************************************)
\* m is the lookup of the organization list orgs
LookupOf(m, orgs) ==
  /\ DOMAIN m = {orgs[i].ID : i \in 1..Len(orgs)}
  /\ \A i \in 1..Len(orgs) :
       (\A j \in (i + 1)..Len(orgs) : orgs[j].ID # orgs[i].ID) =>
         m[orgs[i].ID] = orgs[i].Name

SetupOver == gpc \notin {"getapps", "getorgs"} /\ Len(apps) > 0

C17_SetupBeforeUnits ==
  /\ [](fetched \in {<<>>, <<"applications">>,
                     <<"applications", "organizations">>})
  /\ []((launched > 0 \/ units # EmptyBag) =>
          /\ SetupOver
          /\ fetched = <<"applications", "organizations">>
          /\ \E orgs \in OrgLists : LookupOf(orgIDToName, orgs))
  /\ [](gpc \in {"getapps", "getorgs"} => orgIDToName = <<>>)
  /\ [][orgIDToName' # orgIDToName => (gpc = "getorgs" /\ launched = 0)]_vars
  /\ [][launched > 0 => orgIDToName' = orgIDToName]_vars

\* a goroutine has resolved its organization in the lookup built from a
\* list that names the organization twice
C17_Witness ==
  /\ fetched = <<"applications", "organizations">>
  /\ orgIDToName # <<>>
  /\ \E u \in Running :
       /\ u.pc = "policy"
       /\ u.app.OrganizationID \in DOMAIN orgIDToName
       /\ u.orgName = <<"personal">>

(***************************************************************************)
(* The (component, violation, constraint) triples of a report, by their    *)
(* positions, and their order in the source.                               *)
(***************************************************************************)
Triples(rep) ==
  UNION {UNION {{<<c, v, k>> :
                   k \in 1..Len(rep.Components[c].Violations[v].Constraints)} :
                v \in 1..Len(rep.Components[c].Violations)} :
         c \in 1..Len(rep.Components)}

Before(s, t) ==
  \/ s[1] < t[1]
  \/ s[1] = t[1] /\ s[2] < t[2]
  \/ s[1] = t[1] /\ s[2] = t[2] /\ s[3] < t[3]

\* the place of triple t among the triples of rep, counted from 1
Rank(t, rep) == Cardinality({s \in Triples(rep) : Before(s, t)}) + 1

\* the summaries of a constraint's conditions with " | " between them, each
\* summary being one token
Summaries(constr) ==
  LET n == Len(constr.Conditions)
  IN  IF n = 0 THEN <<>>
      ELSE [i \in 1..(2 * n - 1) |->
              IF i % 2 = 1 THEN constr.Conditions[(i + 1) \div 2].ConditionSummary[1]
              ELSE " | "]

\* the goroutine's violation fetch returned a decoded report
Flattened(u) == u.report # <<>>

(***************************************************************************)
(* C18.  The rows a goroutine gets from the violation fetch are one for    *)
(* each (component, violation, constraint) triple of the report and no     *)
(* other: a component without violations and a violation without           *)
(* constraints give none, the condition summaries of the triple's          *)
(* constraint are joined with " | " in the one Condition field, every row  *)
(* has the application's public id and the organization name passed in,    *)
(* and an empty CVE.                                                       *)
(***************************************************************************)
C18_OneRowPerTriple ==
  \A u \in Running :
    Flattened(u) =>
      LET rep == u.report[1]
          out == u.res.Rows
      IN  /\ u.res.Err = Nil
          /\ Len(out) = Cardinality(Triples(rep))
          /\ \A j \in 1..Len(out) :
               /\ out[j].Application = u.app.PublicID
               /\ out[j].Organization = u.orgName
               /\ out[j].CVE = <<>>
          /\ \A t \in Triples(rep) :
               out[Rank(t, rep)].Condition =
                 Summaries(rep.Components[t[1]].Violations[t[2]].Constraints[t[3]])

\* two components: the first with a violation without constraints and one
\* with two, of which one has two conditions; the second without violations
C18_Witness ==
  \E u \in Running :
    /\ Flattened(u)
    /\ u.report[1].Components =
         <<Comp("libX", <<ViolNone, Viol2>>), Comp("libX", <<>>)>>
    /\ Len(u.res.Rows) = 2
    /\ u.res.Rows[1].Condition = <<>>
    /\ u.res.Rows[2].Condition = <<"a", " | ", "b">>

(***************************************************************************)
(* C19.  The rows follow the source: components in the order of the        *)
(* report, violations in the order of their component, constraints in the  *)
(* order of their violation.  The Threat of a row is the threat level of   *)
(* its violation cut to an integer, and its Policy/Action is "Security-"   *)
(* followed by that integer.                                               *)
(***************************************************************************)
C19_SourceOrderAndThreat ==
  \A u \in Running :
    Flattened(u) =>
      LET rep == u.report[1]
          out == u.res.Rows
      IN  \A t \in Triples(rep) :
            LET comp   == rep.Components[t[1]]
                v      == comp.Violations[t[2]]
                constr == v.Constraints[t[3]]
                row    == out[Rank(t, rep)]
            IN  /\ Rank(t, rep) \in 1..Len(out)
                /\ row.Component = comp.DisplayName
                /\ row.Policy = v.PolicyName
                /\ row.ConstraintName = constr.ConstraintName
                /\ 10 * row.Threat <= v.PolicyThreatLevel
                /\ v.PolicyThreatLevel < 10 * row.Threat + 10
                /\ Head(row.PolicyAction) = "Security-"
                /\ Tail(row.PolicyAction) # <<>>
                /\ Atoi(Tail(row.PolicyAction)) = row.Threat

\* libY before libX, and in libX the violation of level 9.5 before the one
\* of level 7.0: four rows in that order
C19_Witness ==
  \E u \in Running :
    /\ Flattened(u)
    /\ u.report[1].Components =
         <<Comp("libY", <<Viol1>>), Comp("libX", <<Viol2, Viol1>>)>>
    /\ [j \in 1..Len(u.res.Rows) |->
          <<u.res.Rows[j].Component, u.res.Rows[j].ConstraintName,
            u.res.Rows[j].Threat, u.res.Rows[j].PolicyAction>>]
       = << <<<<"libY">>, <<"Medium risk CVSS score">>, 7, <<"Security-", "7">> >>,
            <<<<"libX">>, <<"Empty">>, 9, <<"Security-", "9">> >>,
            <<<<"libX">>, <<"Medium risk CVSS score">>, 9, <<"Security-", "9">> >>,
            <<<<"libX">>, <<"Medium risk CVSS score">>, 7, <<"Security-", "7">> >> >>

(***************************************************************************)
(* C20.  The file WriteCSV has written begins with the header No.,         *)
(* Application, Organization, Policy, Format, Component, Threat,           *)
(* Policy/Action, Constraint Name, Condition, CVE, and each record after   *)
(* it has as many fields as the header, the CVE of its row being the       *)
(* eleventh (index 10 counted from 0).                                     *)
(***************************************************************************)
HeaderWithFormat ==
  << <<"No.">>, <<"Application">>, <<"Organization">>, <<"Policy">>,
     <<"Format">>, <<"Component">>, <<"Threat">>, <<"Policy/Action">>,
     <<"Constraint Name">>, <<"Condition">>, <<"CVE">> >>

C20_HeaderWithFormat ==
  (wr.pc = "done" /\ wr.err = Nil /\ ~crashed) =>
    LET data == fs.dest[1].data
    IN  /\ data[1] = HeaderWithFormat
        /\ \A k \in 2..Len(data) :
             /\ Len(data[k]) = Len(HeaderWithFormat)
             /\ data[k][Len(HeaderWithFormat)] = rows[k - 1].CVE

\* the columns of a flattened row after the row number, the format among
\* them
FieldsWithFormat(r) ==
  << r.Application, r.Organization, r.Policy, r.Format, r.Component,
     Itoa(r.Threat), r.PolicyAction, r.ConstraintName, r.Condition, r.CVE >>

\* the rows the flattening gave the goroutine u
ClientRows(u) ==
  parseToViolationRows(u.report[1], u.app.PublicID, u.orgName)

(***************************************************************************)
(* C21.  Every field of a flattened row, the component's package format    *)
(* among them, is carried unchanged into the outcome of its goroutine and, *)
(* when the run succeeds, into a record of the file: the row of component  *)
(* libX (format pypi) gives the record                                     *)
(* n,<pub>,<org>,Security-Medium,pypi,libX,7,Security-7,Medium risk CVSS   *)
(* score,a | b, with an empty CVE.                                         *)
(***************************************************************************)
C21_FormatCarried ==
  \A u \in Running :
    Flattened(u) /\ u.pc # "policy" =>
      /\ Len(u.res.Rows) = Len(ClientRows(u))
      /\ \A i \in 1..Len(ClientRows(u)) :
           \A f \in DOMAIN ClientRows(u)[i] :
             /\ f \in DOMAIN u.res.Rows[i]
             /\ u.res.Rows[i][f] = ClientRows(u)[i][f]
      /\ gpc = "returned" /\ ret.err = Nil =>
           \A i \in 1..Len(ClientRows(u)) :
             \E k \in 2..Len(fs.dest[1].data) :
               Tail(fs.dest[1].data[k]) = FieldsWithFormat(ClientRows(u)[i])

(***************************************************************************)
(* C22.  WriteCSV called with no rows succeeds when its steps do, no step  *)
(* that could fail being about a row, and leaves at the destination a     *)
(* file of exactly one record, the header csvHeaders returns, and no data  *)
(* record.                                                                 *)
(***************************************************************************)
C22_EmptyRowsHeaderOnly ==
  (rows = <<>> /\ ~crashed) =>
    /\ wr.i = 0
    /\ wr.err # Nil => ~HasPrefix(wr.err, <<"write row ">>)
    /\ (wr.pc = "done" /\ wr.err = Nil) =>
         /\ ret = Returned(target, Nil)
         /\ fs.dest # NoFile
         /\ Len(fs.dest[1].data) = 1
         /\ fs.dest[1].data[1] = csvHeaders
         /\ fs.tmp = NoFile

\* WriteCSV has returned from a call with no rows; the header-only file is
\* in the place of the old one
C22_Witness ==
  /\ rows = <<>>
  /\ ~crashed
  /\ wr.pc = "done"
  /\ wr.err = Nil
  /\ fs0.dest = OldFile
  /\ fs.dest # NoFile /\ fs.dest[1].data = <<csvHeaders>>

Answer(u) == u.lookup[1]

InEnv(k) == environ.env[k] # Unset

\* the variable k is set there or in the file config/.env
Supplied(k) ==
  InEnv(k) \/ (environ.file # <<>> /\ environ.file[1][k] # Unset)

\* the value Load finds for a supplied variable
Supply(k) == IF InEnv(k) THEN environ.env[k][1] ELSE environ.file[1][k][1]

(***************************************************************************)
(* C25.  config.Load returns an error when IQ_SERVER_URL, IQ_USERNAME or   *)
(* IQ_PASSWORD is missing from the environment; when the three are set it  *)
(* succeeds, also with an empty ORGANIZATION_ID; the OutputDir it returns  *)
(* is always "reports_output".                                             *)
(***************************************************************************)
C25_LoadNeedsPresence ==
  cfg # NotLoaded =>
    /\ (\E k \in RequiredKeys : ~InEnv(k)) => cfg.err # Nil
    /\ (\A k \in RequiredKeys : InEnv(k)) =>
         cfg.err = Nil /\ cfg.val[1].OutputDir = <<"reports_output">>

(***************************************************************************)
(* C25, amended.  config.Load returns an error and no configuration when   *)
(* IQ_SERVER_URL, IQ_USERNAME or IQ_PASSWORD is set neither in the         *)
(* environment nor in config/.env, when one of them is empty, and when     *)
(* IQ_SERVER_URL is not a URL.  In every other case it succeeds, also with *)
(* ORGANIZATION_ID empty or not set: the configuration has the values      *)
(* found, the environment before the file, and OutputDir                   *)
(* "reports_output".                                                       *)
(***************************************************************************)
C25_LoadValidates ==
  cfg # NotLoaded =>
    IF \/ \E k \in RequiredKeys : ~Supplied(k) \/ Supply(k) = <<>>
       \/ Supply("IQ_SERVER_URL") \notin {ServerURL}
      THEN cfg.err # Nil /\ cfg.val = <<>>
      ELSE /\ cfg.err = Nil
           /\ cfg.val[1].IQServerURL = Supply("IQ_SERVER_URL")
           /\ cfg.val[1].IQUsername = Supply("IQ_USERNAME")
           /\ cfg.val[1].IQPassword = Supply("IQ_PASSWORD")
           /\ cfg.val[1].OrganizationID =
                (IF Supplied("ORGANIZATION_ID") THEN Supply("ORGANIZATION_ID")
                 ELSE <<>>)
           /\ cfg.val[1].OutputDir = <<"reports_output">>

\* Load succeeded with the three set in the environment, ORGANIZATION_ID
\* set and empty, and no file
C25_Witness ==
  /\ cfg # NotLoaded
  /\ environ = [env |-> TestEnv, file |-> <<>>]
  /\ gpc = "getapps"
  /\ cfg.err = Nil
  /\ cfg.val[1].OrganizationID = <<>>
  /\ cfg.val[1].OutputDir = <<"reports_output">>

(***************************************************************************)
(* C26.  Whatever the way a goroutine leaves (cancelled, lookup error, no  *)
(* report, locator not parseable, violation fetch error, rows), it sends   *)
(* one outcome and no more: the outcomes sent so far are as many as the    *)
(* goroutines past their send.  The send comes before the release of the   *)
(* slot and before wg.Done(): a send changes neither sem nor wg, and only  *)
(* a goroutine that has sent releases a slot or signals completion.        *)
(***************************************************************************)
C26_OneOutcomeBeforeRelease ==
  /\ [](/\ Len(received) + Len(resultsChan) = NumAt(SentPcs)
        /\ NumAt(SentPcs) <= launched)
  /\ [][/\ Len(resultsChan') > Len(resultsChan) =>
             /\ Len(resultsChan') = Len(resultsChan) + 1
             /\ NumAt({"send"})' = NumAt({"send"}) - 1
             /\ NumAt({"release"})' = NumAt({"release"}) + 1
             /\ sem' = sem /\ wg' = wg
        /\ sem' < sem =>
             /\ NumAt({"release"})' = NumAt({"release"}) - 1
             /\ NumAt({"wgdone"})' = NumAt({"wgdone"}) + 1
        /\ wg' < wg =>
             /\ NumAt({"wgdone"})' = NumAt({"wgdone"}) - 1
             /\ NumAt({"done"})' = NumAt({"done"}) + 1]_vars

\* both goroutines have returned, one for an application without a report
\* and one with an error; their two outcomes were sent
C26_Witness ==
  /\ AllDone
  /\ Len(apps) = 2
  /\ \E u \in Running : Skipped(u)
  /\ \E u \in Running : u.res.Err # Nil
  /\ Len(received) + Len(resultsChan) = 2

\* the rows of the outcomes q, in their order
RECURSIVE Merged(_)
Merged(q) == IF q = <<>> THEN <<>> ELSE Head(q).Rows \o Merged(Tail(q))

\* an outcome with an error is among those of q
HasError(q) == \E k \in 1..Len(q) : q[k].Err # Nil

(***************************************************************************)
(* C27.  WriteCSV is called only from a state where each of the N          *)
(* applications has a goroutine that has returned, the merge loop has      *)
(* taken all N outcomes and none of them has an error; it is called with   *)
(* their rows.  The merge loop never ends on the closed channel while an   *)
(* outcome with an error is unread or was read and passed over.            *)
(***************************************************************************)
C27_WriterAfterCleanMerge ==
  /\ []((gpc = "write" \/ wr.pc = "done") =>
          /\ BagCardinality(units) = Len(apps)
          /\ \A u \in Running : u.pc = "done" /\ u.res.Err = Nil
          /\ Len(received) = Len(apps)
          /\ ~HasError(received) /\ ~HasError(resultsChan)
          /\ allViolationRows = Merged(received))
  /\ [][wr = WriteIdle /\ wr' # WriteIdle =>
          /\ gpc = "merge" /\ chanClosed' /\ resultsChan' = <<>>
          /\ Len(received') = Len(apps)
          /\ ~HasError(received')]_vars

\* WriteCSV runs on the rows of two outcomes, the second without rows
C27_Witness ==
  /\ gpc = "write"
  /\ wr.pc = "rows"
  /\ Len(received) = 2
  /\ received[1].Rows # <<>> /\ received[2].Rows = <<>>
  /\ allViolationRows = received[1].Rows

\* the run is over: the function has returned and no goroutine is left
Quiescent ==
  /\ gpc = "returned"
  /\ NoneRunning
  /\ sem = 0 /\ wg = 0
  /\ launched > 0 => (launched = Len(apps) /\ chanClosed)

C29_SlotsMatchHolders ==
  /\ [](/\ sem = NumAt(InFlightPcs)
        /\ sem \in 0..SemCap
        /\ sem >= NumAt({"latest", "policy"})
        /\ NoneRunning => sem = 0)
  /\ [][/\ sem' > sem =>
             /\ sem' = sem + 1
             /\ NumAt({"acquire"})' = NumAt({"acquire"}) - 1
        /\ sem' < sem =>
             /\ sem' = sem - 1
             /\ NumAt(InFlightPcs)' = NumAt(InFlightPcs) - 1
             /\ NumAt({"acquire"})' = NumAt({"acquire"})
        /\ NumDispatched' > NumDispatched =>
             /\ sem' = sem /\ sem >= 1
             /\ NumAt(InFlightPcs)' = NumAt(InFlightPcs)]_vars

\* both goroutines have returned, one cancelled at its start and one after
\* its two calls; no slot is taken
C29_Witness ==
  /\ AllDone
  /\ Len(apps) = 2
  /\ sem = 0
  /\ \E u \in Running : Cancelled(u)
  /\ \E u \in Running : Len(u.calls) = 2

\* the client calls dispatched so far by all goroutines
RECURSIVE CallCount(_)
CallCount(S) ==
  IF S = {} THEN 0
  ELSE LET u == CHOOSE v \in S : TRUE
       IN  Len(u.calls) * CopiesIn(u, units) + CallCount(S \ {u})

\* the applications the launch loop has passed
LaunchedApps == SeqBag(SubSeq(apps, 1, launched))

\* the applications of the goroutine frames
RECURSIVE FrameApps(_)
FrameApps(S) ==
  IF S = {} THEN EmptyBag
  ELSE LET u == CHOOSE v \in S : TRUE
       IN  Times(SetToBag({u.app}), CopiesIn(u, units))
           (+) FrameApps(S \ {u})

(***************************************************************************)
(* C30.  A goroutine goes through its steps in one order: the lookup of    *)
(* the latest report, the test for no report, the parse of the locator,    *)
(* the organization lookup, the violation fetch.  The violation fetch is   *)
(* dispatched only after a lookup that returned without error a locator    *)
(* that is not blank and has a report id after the marker, and with that   *)
(* id and the organization name looked up.  There is one goroutine for     *)
(* each application launched, each of the two calls is dispatched at most  *)
(* once in it, and after a call failed the goroutine dispatches no call.   *)
(***************************************************************************)
C30_FixedOrderNoRetry ==
  /\ [](/\ FrameApps(Running) = LaunchedApps
        /\ \A u \in Running :
             /\ u.calls \in {<<>>, <<"latest">>, <<"latest", "policy">>}
             /\ u.pc = "latest" => u.calls = <<"latest">> /\ u.lookup = <<>>
             /\ u.pc = "policy" => u.calls = <<"latest", "policy">>
             /\ u.lookup # <<>> <=> LookedUp(u)
             /\ Len(u.calls) = 2 =>
                  /\ Parsed(u)
                  /\ u.reportID =
                       Cut(u.latest.info[1].ReportHTMLURL, Marker).after
                  /\ u.reportID # <<>>
                  /\ u.orgName =
                       lookupOrgName(orgIDToName, u.app.OrganizationID)
             /\ (LookedUp(u) /\ ~Parsed(u)) =>
                  u.calls = <<"latest">> /\ u.report = <<>>
             /\ u.pc \in {"send"} \cup SentPcs =>
                  (u.res.Err # Nil => u.res.Rows = <<>>))
  /\ [][/\ CallCount(Running)' \in {CallCount(Running),
                                    CallCount(Running) + 1}
        /\ \A u \in Running :
             (u.pc \in {"send"} \cup SentPcs) =>
               \E v \in BagToSet(units') :
                 v.app = u.app /\ v.calls = u.calls /\ v.res = u.res]_vars

\* one goroutine whose lookup failed and one whose violation fetch failed,
\* both returned: three calls were dispatched, none twice
C30_Witness ==
  /\ AllDone
  /\ Len(apps) = 2
  /\ \E u \in Running : u.latest.err # Nil /\ u.calls = <<"latest">>
  /\ \E u \in Running :
       /\ u.calls = <<"latest", "policy">>
       /\ u.res.Err # Nil
  /\ CallCount(Running) = 3

\* the answers with which a setup call fails
SetupFailures == {TransportErr, HTTPErr, CtxAbort}

\* nothing was launched and nothing written
NothingDone ==
  /\ launched = 0 /\ units = EmptyBag
  /\ sem = 0 /\ wg = 0 /\ closer = "none" /\ resultsChan = <<>>
  /\ received = <<>>
  /\ wr = WriteIdle /\ fs = fs0

(***************************************************************************)
(* C31.  When GetApplications or GetOrganizations fails,                   *)
(* GenerateLatestPolicyReport returns that error, wrapped with "get        *)
(* applications: " or "get organizations: ", and no path; it has launched  *)
(* no goroutine and written no file, and stays so.  After a failed         *)
(* application listing the organizations are not fetched.                  *)
(***************************************************************************)
C31_SetupFailureStopsRun ==
  /\ [][\A raw \in SetupFailures :
          /\ FetchApplications(raw) =>
               /\ gpc' = "returned"
               /\ ret' = Returned(<<>>, <<"get applications: ">>
                                           \o GetApplications(raw).err)
          /\ FetchOrganizations(raw) =>
               /\ gpc' = "returned"
               /\ ret' = Returned(<<>>, <<"get organizations: ">>
                                           \o GetOrganizations(raw).err)]_vars
  /\ [](HasPrefix(ret.err, <<"get applications: ">>) =>
          /\ gpc = "returned" /\ ret.path = <<>>
          /\ fetched = <<"applications">>
          /\ apps = <<>> /\ orgIDToName = <<>>
          /\ NothingDone)
  /\ [](HasPrefix(ret.err, <<"get organizations: ">>) =>
          /\ gpc = "returned" /\ ret.path = <<>>
          /\ fetched = <<"applications", "organizations">>
          /\ apps # <<>> /\ orgIDToName = <<>>
          /\ NothingDone)
  /\ []((gpc = "returned" /\ launched = 0) =>
          \/ ret.err = NoApplications
          \/ HasPrefix(ret.err, <<"get applications: ">>)
          \/ HasPrefix(ret.err, <<"get organizations: ">>))

\* the organization listing was answered with HTTP 500 after two
\* applications were listed; the run has failed with that error
C31_Witness ==
  /\ gpc = "returned"
  /\ ret = Returned(<<>>, <<"get organizations: ">> \o httpError(HTTPErr))
  /\ Len(apps) = 2
  /\ NothingDone
  /\ fs.dest = OldFile

\* the temporary file holds the header and every row
TmpWritten ==
  /\ wr.i = Len(rows) /\ wr.w = <<>>
  /\ fs.tmp # NoFile /\ fs.tmp[1].data = CompleteFile(rows)

\* ... and all of it is on stable storage
TmpSynced == TmpWritten /\ fs.tmp[1].durable = Len(fs.tmp[1].data)

(***************************************************************************)
(* C32.  WriteCSV renames the temporary file onto the destination only     *)
(* after the header and all rows were written and the flush, the sync and  *)
(* the close have succeeded, in that order: a failure of one of them       *)
(* leads to the cleanup, not to the next step.  The mode of the            *)
(* destination is set only after the rename has succeeded.                 *)
(***************************************************************************)
C32_RenameAfterSyncAndClose ==
  /\ [](~crashed =>
          /\ wr.pc = "sync" => (wr.err = Nil /\ wr.open /\ TmpWritten)
          /\ wr.pc = "close" => (wr.err = Nil /\ wr.open /\ TmpSynced)
          /\ wr.pc = "rename" => (wr.err = Nil /\ ~wr.open /\ TmpSynced)
          /\ wr.pc = "chmod" =>
               /\ wr.err = Nil
               /\ fs.tmp = NoFile
               /\ fs.dest # NoFile
               /\ fs.dest[1].data = CompleteFile(rows)
               /\ fs.dest[1].durable = Len(fs.dest[1].data))
  /\ [][/\ (\E n \in 0..Len(wr.w) : Flush(FALSE, n)) => wr'.pc = "cleanup"
        /\ Sync(FALSE) => wr'.pc = "cleanup"
        /\ Close(FALSE) => wr'.pc = "cleanup"
        /\ Rename(FALSE) => (wr'.pc = "cleanup" /\ fs'.dest = fs.dest)
        /\ (~crashed' /\ fs'.dest # fs.dest) =>
             \/ wr.pc = "rename" /\ TmpSynced /\ ~wr.open
                  /\ fs'.dest = fs.tmp
             \/ wr.pc = "chmod" /\ fs'.dest # NoFile
                  /\ fs'.dest[1].data = fs.dest[1].data]_vars

\* the mode is being set on the file of two rows or more that replaced the
\* old one
C32_Witness ==
  /\ ~crashed
  /\ wr.pc = "cleanup" /\ wr.err = Nil
  /\ Len(rows) >= 2
  /\ fs0.dest = OldFile
  /\ fs.dest # NoFile /\ fs.dest[1].mode = "0644"
  /\ fs.dest[1].data = CompleteFile(rows)

\* WriteCSV has returned
WriteOver == ~crashed /\ wr.pc \in {"return", "done"}

(***************************************************************************)
(* C33.  After WriteCSV has returned, with success or with the error of a  *)
(* step after the temporary file was created, no temporary file of the     *)
(* call is left, and the destination file was not removed.                 *)
(***************************************************************************)
C33_NoTemporaryLeft ==
  WriteOver =>
    /\ fs.tmp = NoFile
    /\ fs0.dest # NoFile => fs.dest # NoFile

(***************************************************************************)
(* C33, amended.  On every return after the temporary file was created     *)
(* WriteCSV tries once to remove it and ignores the outcome: a temporary   *)
(* file of the call is left only when the call failed before the rename    *)
(* and that removal failed, never after a success or a failed chmod.  The  *)
(* cleanup leaves the destination as it finds it.                          *)
(***************************************************************************)
C33_TemporaryRemovedBestEffort ==
  /\ [](WriteOver =>
          /\ (wr.err = Nil \/ ~FailedUpToRename) => fs.tmp = NoFile
          /\ fs.tmp # NoFile =>
               /\ FailedUpToRename
               /\ ~HasPrefix(wr.err, <<"prepare output dir: ">>)
               /\ ~HasPrefix(wr.err, <<"create temp file: ">>)
          /\ ~wr.open
          /\ fs0.dest # NoFile => fs.dest # NoFile)
  /\ [][\A removed \in BOOLEAN :
          Cleanup(removed) =>
            /\ fs'.dest = fs.dest
            /\ removed => fs'.tmp = NoFile
            /\ ~removed => fs'.tmp = fs.tmp]_vars
  /\ [][(wr.pc \in {"header", "rows", "sync", "close", "rename", "chmod"}
           /\ wr'.pc \notin {wr.pc, "rows", "sync", "close", "rename",
                             "chmod"}) =>
          (crashed' \/ wr'.pc = "cleanup")]_vars

\* the sync failed, WriteCSV has returned its error, the temporary file is
\* gone and the old file in place
C33_Witness ==
  /\ WriteOver
  /\ HasPrefix(wr.err, <<"fsync temp: ">>)
  /\ fs.tmp = NoFile
  /\ fs0.dest = OldFile /\ fs.dest = OldFile

\* the rows the goroutine u contributes: those of the flattening, in its
\* order, as report rows
Block(u) == IF Flattened(u) THEN reportRows(ClientRows(u)) ELSE <<>>

\* no outcome taken so far has an error
MergingOn ==
  gpc \in {"merge", "write"} \/ (gpc = "returned" /\ wr # WriteIdle)

(***************************************************************************)
(* C34.  The merged rows are the blocks of the outcomes in the order the   *)
(* merge loop took them from the channel: each outcome adds the rows of    *)
(* one goroutine, whole and in the order of the flattening, behind the     *)
(* rows merged before.  A successful run writes them in that order, which  *)
(* need not be the order of the application list.                          *)
(***************************************************************************)
C34_BlocksInReceiveOrder ==
  /\ [](MergingOn =>
          /\ allViolationRows = Merged(received)
          /\ \A k \in 1..Len(received) :
               \E u \in Sent :
                 received[k] = u.res /\ received[k].Rows = Block(u))
  /\ []((gpc = "returned" /\ ret.err = Nil) =>
          /\ fs.dest # NoFile
          /\ Len(fs.dest[1].data) = 1 + Len(Merged(received))
          /\ \A k \in 1..Len(Merged(received)) :
               Tail(fs.dest[1].data[k + 1]) = Fields(Merged(received)[k]))
  /\ [][allViolationRows' # allViolationRows =>
          \/ allViolationRows' = allViolationRows \o Head(resultsChan).Rows
          \/ gpc' = "returned" /\ ret'.err # Nil]_vars

\* a successful run over two different applications: the three rows of the
\* second were taken first, the file has them before the row of the first
C34_Witness ==
  /\ gpc = "returned" /\ ret.err = Nil
  /\ apps = <<App1, App2>>
  /\ Len(received) = 2
  /\ Len(received[1].Rows) = 3 /\ Len(received[2].Rows) = 1
  /\ received[1].Rows[1].Application = App2.PublicID
  /\ received[2].Rows[1].Application = App1.PublicID
  /\ fs.dest[1].data[2][2] = App2.PublicID
  /\ fs.dest[1].data[5][2] = App1.PublicID

\* the rows the answers of the remote source give for the application of
\* the goroutine u, whatever the interleaving: from the listed report, the
\* marker, the organization list and the violation report
RowsFromAnswers(u) ==
  LET l == GetLatestReportInfo(Answer(u))
  IN  IF l.err # Nil \/ Blank(l.info) THEN <<>>
      ELSE reportRows(
             parseToViolationRows(u.report[1], u.app.PublicID,
               lookupOrgName(orgIDToName, u.app.OrganizationID)))

\* the bag of the records these rows give, the row number left out
RECURSIVE RecordsFromAnswers(_)
RecordsFromAnswers(S) ==
  IF S = {} THEN EmptyBag
  ELSE LET u == CHOOSE v \in S : TRUE
           q == RowsFromAnswers(u)
       IN  Times(SeqBag([k \in 1..Len(q) |-> Fields(q[k])]),
                 CopiesIn(u, units))
           (+) RecordsFromAnswers(S \ {u})

\* the bag of the blocks of rows
RECURSIVE BlocksFromAnswers(_)
BlocksFromAnswers(S) ==
  IF S = {} THEN EmptyBag
  ELSE LET u == CHOOSE v \in S : TRUE
       IN  Times(SetToBag({RowsFromAnswers(u)}), CopiesIn(u, units))
           (+) BlocksFromAnswers(S \ {u})

(***************************************************************************)
(* C35.  What a run without error writes is fixed by the answers of the    *)
(* remote source up to the order of the blocks: the file has the header,   *)
(* and its records, the row number left out, are as a bag the records of   *)
(* the rows the answers give for each application; the blocks merged are   *)
(* as a bag the blocks of the applications.  Two runs on the same answers  *)
(* under different interleavings hence write the same header and the same  *)
(* bag of records, and differ at most in the order of the blocks.          *)
(***************************************************************************)
C35_OutputFixedByAnswers ==
  (gpc = "returned" /\ ret.err = Nil) =>
    LET data == fs.dest[1].data
    IN  /\ data[1] = csvHeaders
        /\ FrameApps(Running) = SeqBag(apps)
        /\ SeqBag([k \in 1..(Len(data) - 1) |-> Tail(data[k + 1])])
             = RecordsFromAnswers(Running)
        /\ SeqBag([k \in 1..Len(received) |-> received[k].Rows])
             = BlocksFromAnswers(Running)
        /\ \A k \in 1..(Len(data) - 1) : data[k + 1][1] = Itoa(k)

\* a successful run over App1, App2 in which the row of App2 was merged
\* before the three rows of App1
C35_Witness ==
  /\ gpc = "returned" /\ ret.err = Nil
  /\ apps = <<App1, App2>>
  /\ Len(fs.dest[1].data) = 5
  /\ fs.dest[1].data[2][2] = App2.PublicID
  /\ \A k \in 3..5 : fs.dest[1].data[k][2] = App1.PublicID

====
